---- MODULE Spec2Model ----
(***************************************************************************)
(* Model of package copilotcli (client.go): the Client's connection        *)
(* lifecycle (Start with retry and backoff, Stop, IsConnected, Ping),      *)
(* DestroySession, and the two query forms (QueryWithSession, QueryStream) *)
(* with their per-call event handlers.  Callers are the processes of       *)
(* Procs; each runs one call at a time against one shared Client.  The     *)
(* remote agent (sdkClient / sdkSession) is the environment: each of its   *)
(* operations returns success or an error, and it delivers events to the   *)
(* handlers subscribed on a session.                                       *)
(***************************************************************************)
EXTENDS Integers, Sequences, FiniteSets, TLC

\* ------------------------------------------------------------------ bounds
\* largest retryAttempts a configuration of the model carries
MaxRetry == 3
\* number of API calls the callers begin in one behaviour
MaxCalls == 3
\* number of events the remote agent emits in one behaviour
MaxEvents == 3

\* ------------------------------------------------------- program constants
\* time.Duration is an int64 count of nanoseconds
DurationBits == 64
\* defaultRetryDelay = 500 * time.Millisecond, in nanoseconds
defaultRetryDelay == 500000000
\* capacity of the stream channel: make(chan StreamEvent, 64)
StreamBuffer == 64

\* ------------------------------------------------------------------ values
Procs == {"p1", "p2"}
NoProc == "none"

\* session handles the remote agent hands out, named by their ID()
SessionIDs == {"s1", "s2"}

\* errors: a sentinel (or wrapper text) and the text of the wrapped cause
Err(kind, cause) == [kind |-> kind, cause |-> cause]
NoErr == Err("nil", "")
ErrNotConnected == Err("ErrNotConnected", "")
ErrAlreadyConnected == Err("ErrAlreadyConnected", "")
ErrEmptyPrompt == Err("ErrEmptyPrompt", "")
\* fmt.Errorf("%w: %w", ErrSidecarUnavailable, cause)
ErrSidecarUnavailable(cause) == Err("ErrSidecarUnavailable", cause)

\* errors the remote agent's operations report; the remote Start fails with
\* a different text at each attempt of a call
StartErr(n) ==
    CASE n = 1 -> "start failed 1"
      [] n = 2 -> "start failed 2"
      [] n = 3 -> "start failed 3"
      [] OTHER -> "start failed"
SdkErr == "sdk error"
\* ctx.Err() of a completed context
CtxErrs == {"context canceled", "context deadline exceeded"}
CtxLive == ""

\* A time.Duration: the bits of a two's complement int64, lowest first.
Duration(n) ==
    [i \in 1..DurationBits |-> IF i <= 31 THEN (n \div (2 ^ (i - 1))) % 2 ELSE 0]
\* d * 2 in int64 arithmetic (the high bit is lost)
Double(d) == [i \in 1..DurationBits |-> IF i = 1 THEN 0 ELSE d[i - 1]]
RECURSIVE Shl(_, _)
Shl(d, k) == IF k = 0 THEN d ELSE Shl(Double(d), k - 1)
IsPositive(d) == d[DurationBits] = 0 /\ \E i \in 1..DurationBits : d[i] = 1

\* the configurations New can build: retryAttempts >= 1 (WithRetryAttempts),
\* retryDelay > 0 (WithRetryDelay)
RetryDelays == {Duration(defaultRetryDelay)}
Configs == [retryAttempts : 1..MaxRetry, retryDelay : RetryDelays]
\* configurations with the default and with long base delays, which
\* WithRetryDelay accepts as it accepts every d > 0: 2^61 ns, 2^62 ns and
\* the longest time.Duration, 2^63 - 1 ns
MaxDuration == [i \in 1..DurationBits |-> IF i = DurationBits THEN 0 ELSE 1]
LongDelays == {Shl(Duration(1), 61), Shl(Duration(1), 62), MaxDuration}
BackoffConfigs == [retryAttempts : 1..MaxRetry, retryDelay : RetryDelays \cup LongDelays]
\* a < b, for two time.Durations
RECURSIVE Below(_, _, _)
Below(a, b, i) ==
    IF i = 0 THEN FALSE
    ELSE IF a[i] # b[i] THEN a[i] < b[i]
    ELSE Below(a, b, i - 1)
Less(a, b) ==
    IF a[DurationBits] # b[DurationBits] THEN a[DurationBits] = 1
    ELSE Below(a, b, DurationBits - 1)

\* remote operations counted per call
RemoteOps == {"Start", "Stop", "Ping", "CreateSession", "ResumeSession",
              "DeleteSession", "On", "Send", "Abort", "Unsubscribe"}
NoCalls == [o \in RemoteOps |-> 0]

\* a nil *string (Data.Content, Data.DeltaContent, Data.Message)
Nil == "<nil>"
\* copilot.SessionEvent: its Type, and the one text field of Data that the
\* handlers read for that type
AssistantMessage == "assistant.message"
AssistantMessageDelta == "assistant.message_delta"
SessionIdle == "session.idle"
SessionError == "session.error"
OtherEvent == "session.start"
Events ==
    [type : {AssistantMessage}, text : {Nil, "a", "b"}]
    \cup [type : {AssistantMessageDelta}, text : {Nil, "", "a", "b"}]
    \cup [type : {SessionError}, text : {Nil, "boom"}]
    \cup [type : {SessionIdle, OtherEvent}, text : {Nil}]

\* arguments the callers pass
Prompts == {"", "hi"}
SessionArgs == {"", "s1"}

\* StreamEvent
Item(delta, content, final, err) ==
    [DeltaContent |-> delta, Content |-> content, IsFinal |-> final, Error |-> err]

\* -------------------------------------------------------- New and options
\* the most options one call of New is given
MaxOptions == 3
defaultRetryAttempts == 5
\* defaultConnTimeout = 10 * time.Second = 1250000000 * 2^3 ns
defaultConnTimeout == Shl(Duration(1250000000), 3)
\* -1, as a time.Duration
MinusOne == [i \in 1..DurationBits |-> 1]
\* arguments given to the options
URLArgs == {"", "sidecar:4321"}
ModelArgs == {"", "gpt-5"}
DurationArgs == {MinusOne, Duration(0), Duration(1)}
AttemptArgs == {-1, 0, 1, 2}
BaseURLArgs == {"", "https://api.openai.com/v1"}
\* defaultCfg(): the fields validate and the options' checks concern
defaultCfg ==
    [cliURL |-> "localhost:4321", model |-> "gpt-4o", authMode |-> "github",
     streaming |-> FALSE, connTimeout |-> defaultConnTimeout,
     retryAttempts |-> defaultRetryAttempts,
     retryDelay |-> Duration(defaultRetryDelay), providerBaseURL |-> ""]
\* New has not been called
NoBuild ==
    [pc |-> "none", n |-> 0, cfg |-> defaultCfg, err |-> Nil, client |-> FALSE,
     connected |-> FALSE]

\* ------------------------------------------------------------ tool bridge
ToolNames == {"greet", "failing_tool"}
\* invocation.Arguments is an any holding what the SDK decoded from JSON; a
\* value is named by its dynamic type, as %T prints it
MapType == "map[string]interface {}"
Arguments == {Nil, "string", "float64", "bool", "[]interface {}", MapType}
\* what the caller's ToolHandler returns: (string, error), the error named
\* by its message (Nil: no error)
HandlerReturns == [text : {"", "ok"}, err : {Nil, "", "lost"}]
\* copilot.ToolResult{}
NoResult == [TextResultForLLM |-> "", ResultType |-> "", SessionLog |-> ""]
\* no invocation is in progress
NoInvocation ==
    [name |-> "", args |-> Nil, handler |-> [text |-> "", err |-> Nil],
     pc |-> "none", invoked |-> 0, result |-> NoResult, err |-> Nil]
\* the SDK invokes the Handler of a tool
Invocations ==
    {[NoInvocation EXCEPT !.name = n, !.args = a, !.handler = h, !.pc = "Assert"] :
        n \in ToolNames, a \in Arguments, h \in HandlerReturns}

\* ---------------------------------------------------------- HTTP handlers
\* the longest prompt of a request body, in characters
MaxPrompt == 2
\* http.StatusOK, StatusBadRequest, StatusInternalServerError,
\* StatusServiceUnavailable
StatusOK == 200
StatusBadRequest == 400
StatusInternalServerError == 500
StatusServiceUnavailable == 503
\* characters of a prompt: white space and a letter
WhiteSpace == {" ", "\t"}
Chars == WhiteSpace \cup {"h"}
HttpPrompts == UNION {[1..n -> Chars] : n \in 0..MaxPrompt}
\* r.Body: bytes json.Decode rejects, or a queryRequest
Bodies == [valid : {FALSE}, Prompt : {<<>>}, SessionID : {""}]
          \cup [valid : {TRUE}, Prompt : HttpPrompts, SessionID : {"", "s1"}]
\* what client.QueryWithSession / QueryStream returns: a result or stream
\* (NoErr) or an error; errors.Is looks for the sentinel in the error's chain
ClientReturns ==
    {NoErr, ErrNotConnected, ErrSidecarUnavailable("start failed"),
     Err("session setup", SdkErr), Err("sending message", SdkErr),
     Err("copilot", "boom")} \cup {Err("ctx", c) : c \in CtxErrs}
Is(err, target) == err.kind = target.kind
\* no request is being served
NoRequest ==
    [handler |-> "none", flusher |-> FALSE,
     body |-> [valid |-> FALSE, Prompt |-> <<>>, SessionID |-> ""],
     client |-> NoErr, pc |-> "none", called |-> 0, status |-> 0]
\* a request arrives at NewQueryHandler's or NewStreamHandler's function; w
\* implements http.Flusher or not
Requests ==
    {[NoRequest EXCEPT !.handler = h, !.flusher = f, !.body = b, !.client = c,
                       !.pc = IF h = "NewStreamHandler" THEN "Flusher" ELSE "Decode"] :
        h \in {"NewQueryHandler", "NewStreamHandler"}, f \in BOOLEAN,
        b \in Bodies, c \in ClientReturns}

\* ------------------------------------------ the events channel of QueryStream
\* the most events the session delivers to one handler of QueryStream
MaxDeliveries == 66
\* the events that make the handler send: a delta with text, session.idle,
\* session.error
StreamEvents ==
    {ev \in Events : \/ ev.type = AssistantMessageDelta /\ ev.text = "a"
                     \/ ev.type \in {SessionIdle, SessionError}}
\* no QueryStream call is looked at event by event
NoChannel ==
    [pc |-> "none", item |-> Item("", "", FALSE, NoErr), fullContent |-> "",
     mu |-> FALSE, buf |-> <<>>, closed |-> FALSE, panicked |-> FALSE, n |-> 0]

\* what a call returned: the error, and for the forms that return one, the
\* *QueryResult (nilRes when nil), the stream channel (ch, FALSE when nil)
\* and session id, or IsConnected's boolean
NoRet == [err |-> NoErr, nilRes |-> TRUE, Content |-> "", SessionID |-> "",
          ch |-> FALSE, b |-> FALSE]
RetErr(e) == [NoRet EXCEPT !.err = e]

VARIABLES
    cfg,        \* Client.cfg, fixed at construction
    connected,  \* Client.connected
    muW,        \* Client.mu: the process holding the write lock, or NoProc
    muR,        \* Client.mu: the processes holding a read lock
    pc,         \* where each caller is in its call
    op,         \* the method each caller is in
    ctx,        \* the caller's context: CtxLive, or its Err() once completed
    prompt,     \* argument prompt
    sessionID,  \* argument sessionID
    ret,        \* the value the call returns
    attempt,    \* Start: the loop variable
    delay,      \* Start: the current backoff delay
    lastErr,    \* Start: the last attempt's error
    session,    \* query forms: ID() of the session handle, "" before there is one
    subscribed, \* query forms: the handler is registered on the session
    content,    \* QueryWithSession: content
    evtErr,     \* QueryWithSession: evtErr
    done,       \* QueryWithSession: the done channel is closed
    fullContent,\* QueryStream: fullContent
    events,     \* QueryStream: the items sent on the events channel, in order
    closed,     \* QueryStream: the events channel is closed
    received,   \* QueryStream: how many items the consumer has received
    watcher,    \* QueryStream: the goroutine waiting on ctx.Done():
                \* "none", "waiting" or "exited"
    crashed,    \* a goroutine panicked: the process is gone, and every
                \* caller's pc is "crashed"
    calls,      \* history: remote operations the current call has invoked
    outcomes,   \* history: results of the current Start's attempts, in order
    slept,      \* history: delays of the waits the current Start has begun
    entryConn,  \* history: the connected flag when the call read it under the lock
    life,       \* history: the last transition of the connection: "new",
                \* "started" (a Start succeeded), "stopped" or "stop failed"
                \* (the remote Stop ran, and returned nil or an error)
    entryLife,  \* history: life when the call took the lock
    lastMsg,    \* history: the text of the last assistant.message event with
                \* content that was delivered to the call's handler (Nil: none)
    idleMsg,    \* history: lastMsg (or "") when the first session.idle event was
                \* delivered to the call's handler (Nil: none was)
    errText,    \* history: the message (Nil when absent) of the first
                \* session.error event delivered to the call's handler
                \* ("none": none was)
    deltas,     \* history: the delta texts (Nil when absent) of the
                \* assistant.message_delta events delivered to the handler of
                \* the QueryStream call, in order
    msgAt,      \* history: Len(deltas) when the last assistant.message event
                \* with content was delivered to that handler
    sent,       \* history: how the call's session.Send went: "none" (not
                \* called), "ok" or "failed"
    ncalls,     \* number of calls begun
    nevents,    \* number of events emitted
    tool,       \* the tool bridge: one invocation of the Handler that
                \* toSDKTool builds, its arguments, the caller's handler
                \* and what the bridge returns
    http,       \* the HTTP layer: one request served by the query or the
                \* stream handler, what the client returns to it, and the
                \* status written
    build,      \* New: the configuration being resolved, the options
                \* applied so far, and what New returns (err; client: a
                \* *Client is returned, with its connected field)
    chan        \* one QueryStream call, statement by statement of its
                \* handler: where the event-delivery thread is in the
                \* handler (pc), the item it is sending, fullContent, mu
                \* (locked or not), the items buffered in the events
                \* channel (buf), whether the channel is closed, whether
                \* the thread panicked, and the events delivered (n)

\* what the client's methods never touch
sideVars == <<tool, http, build, chan>>
clientVars == <<cfg, sideVars, connected, muW, muR>>
argVars == <<prompt, sessionID>>
startVars == <<attempt, delay, lastErr, outcomes, slept>>
entryVars == <<entryConn, entryLife>>
queryVars == <<session, subscribed, content, evtErr, done>>
streamVars == <<fullContent, events, closed, received, watcher>>
envVars == <<lastMsg, idleMsg, errText, deltas, msgAt, sent, nevents, crashed>>
qsVars == <<queryVars, streamVars, envVars>>

\* the client and its calls
apiVars == <<cfg, connected, muW, muR, pc, op, ctx, argVars, ret, startVars,
             entryVars, life, calls, ncalls, qsVars>>

vars == <<clientVars, pc, op, ctx, argVars, ret, startVars, entryVars, life,
          calls, ncalls, qsVars>>

\* New: the client is built from a valid configuration and not connected
New(configs) ==
    /\ cfg \in configs
    /\ connected = FALSE
    /\ muW = NoProc
    /\ muR = {}
    /\ pc = [t \in Procs |-> "idle"]
    /\ op = [t \in Procs |-> "none"]
    /\ ctx = [t \in Procs |-> CtxLive]
    /\ prompt = [t \in Procs |-> ""]
    /\ sessionID = [t \in Procs |-> ""]
    /\ ret = [t \in Procs |-> NoRet]
    /\ attempt = [t \in Procs |-> 0]
    /\ delay = [t \in Procs |-> Duration(0)]
    /\ lastErr = [t \in Procs |-> ""]
    /\ session = [t \in Procs |-> ""]
    /\ subscribed = [t \in Procs |-> FALSE]
    /\ content = [t \in Procs |-> ""]
    /\ evtErr = [t \in Procs |-> NoErr]
    /\ done = [t \in Procs |-> FALSE]
    /\ fullContent = [t \in Procs |-> ""]
    /\ events = [t \in Procs |-> <<>>]
    /\ closed = [t \in Procs |-> FALSE]
    /\ received = [t \in Procs |-> 0]
    /\ watcher = [t \in Procs |-> "none"]
    /\ crashed = FALSE
    /\ calls = [t \in Procs |-> NoCalls]
    /\ outcomes = [t \in Procs |-> <<>>]
    /\ slept = [t \in Procs |-> <<>>]
    /\ entryConn = [t \in Procs |-> FALSE]
    /\ life = "new"
    /\ entryLife = [t \in Procs |-> "new"]
    /\ lastMsg = [t \in Procs |-> Nil]
    /\ idleMsg = [t \in Procs |-> Nil]
    /\ errText = [t \in Procs |-> "none"]
    /\ deltas = [t \in Procs |-> <<>>]
    /\ msgAt = [t \in Procs |-> 0]
    /\ sent = [t \in Procs |-> "none"]
    /\ ncalls = 0
    /\ nevents = 0

\* no tool is invoked and no request served
Aside == tool = NoInvocation /\ http = NoRequest /\ build = NoBuild /\ chan = NoChannel

\* a client that retries as often as the model's configurations do
Init == New({c \in Configs : c.retryAttempts = MaxRetry}) /\ Aside

\* a client of any configuration
InitLifecycle == New(Configs) /\ Aside

\* a mutex that excludes nobody
CanLockAlways == TRUE

\* sync.RWMutex
CanLock == muW = NoProc /\ muR = {}
CanRLock == muW = NoProc

Count(t, o) == [calls EXCEPT ![t][o] = @ + 1]

\* a caller begins a call with a live context
Begin(t, o, sid, p, first) ==
    /\ pc[t] = "idle"
    /\ ncalls < MaxCalls
    /\ ncalls' = ncalls + 1
    /\ op' = [op EXCEPT ![t] = o]
    /\ sessionID' = [sessionID EXCEPT ![t] = sid]
    /\ prompt' = [prompt EXCEPT ![t] = p]
    /\ pc' = [pc EXCEPT ![t] = first]
    /\ UNCHANGED <<clientVars, ctx, ret, startVars, entryVars, life, calls, qsVars>>

\* the call's locals and its context go out of scope
Forget(t) ==
    /\ pc' = [pc EXCEPT ![t] = "idle"]
    /\ op' = [op EXCEPT ![t] = "none"]
    /\ ctx' = [ctx EXCEPT ![t] = CtxLive]
    /\ prompt' = [prompt EXCEPT ![t] = ""]
    /\ sessionID' = [sessionID EXCEPT ![t] = ""]
    /\ ret' = [ret EXCEPT ![t] = NoRet]
    /\ attempt' = [attempt EXCEPT ![t] = 0]
    /\ delay' = [delay EXCEPT ![t] = Duration(0)]
    /\ lastErr' = [lastErr EXCEPT ![t] = ""]
    /\ session' = [session EXCEPT ![t] = ""]
    /\ subscribed' = [subscribed EXCEPT ![t] = FALSE]
    /\ content' = [content EXCEPT ![t] = ""]
    /\ evtErr' = [evtErr EXCEPT ![t] = NoErr]
    /\ done' = [done EXCEPT ![t] = FALSE]
    /\ fullContent' = [fullContent EXCEPT ![t] = ""]
    /\ events' = [events EXCEPT ![t] = <<>>]
    /\ closed' = [closed EXCEPT ![t] = FALSE]
    /\ received' = [received EXCEPT ![t] = 0]
    /\ watcher' = [watcher EXCEPT ![t] = "none"]
    /\ calls' = [calls EXCEPT ![t] = NoCalls]
    /\ outcomes' = [outcomes EXCEPT ![t] = <<>>]
    /\ slept' = [slept EXCEPT ![t] = <<>>]
    /\ entryConn' = [entryConn EXCEPT ![t] = FALSE]
    /\ entryLife' = [entryLife EXCEPT ![t] = "new"]
    /\ lastMsg' = [lastMsg EXCEPT ![t] = Nil]
    /\ idleMsg' = [idleMsg EXCEPT ![t] = Nil]
    /\ errText' = [errText EXCEPT ![t] = "none"]
    /\ deltas' = [deltas EXCEPT ![t] = <<>>]
    /\ msgAt' = [msgAt EXCEPT ![t] = 0]
    /\ sent' = [sent EXCEPT ![t] = "none"]
    /\ UNCHANGED <<cfg, sideVars, connected, life, ncalls, nevents, crashed>>

\* an unrecovered panic ends the process: no goroutine takes another step
Crash == [t \in Procs |-> "crashed"]

\* the lock is taken: what the call finds
Enter(t) ==
    /\ entryConn' = [entryConn EXCEPT ![t] = connected]
    /\ entryLife' = [entryLife EXCEPT ![t] = life]

\* ---------------------------------------------------------------- variants
\* Faulty variants of the definitions below; the properties at the end of
\* the module tell each of them from the code.
\* Start does not look at the connected flag
AlreadyConnectedNever(c) == FALSE
\* Start takes a successful attempt for a failed one
AttemptOkInverted(r) == r # "ok"
\* Start waits after every attempt, the last one too
MoreAttemptsAlways(a) == a < cfg.retryAttempts
\* a cancelled Start reports the last attempt's error
CancelFailureLastErr(t) == ErrSidecarUnavailable(lastErr[t])
\* Stop calls the remote Stop whatever the connected flag is; the other
\* methods go on without a connection
NotConnectedNever(c) == FALSE
\* Stop keeps the flag when the remote Stop fails
StopConnectedOnError(e) == e # NoErr
\* the query forms accept the empty prompt
PromptEmptyNever(p) == FALSE
\* QueryWithSession returns the result along with the event's error
QResultBoth(t) ==
    [NoRet EXCEPT !.err = evtErr[t], !.nilRes = FALSE, !.Content = content[t],
                  !.SessionID = session[t]]
\* the handler of QueryWithSession keeps the first content it sees
QHandlerFirst(t, ev) ==
    [content |-> IF ev.type = AssistantMessage /\ ev.text # Nil /\ content[t] = ""
                 THEN ev.text ELSE content[t],
     evtErr  |-> IF ev.type = SessionError
                 THEN Err("copilot", IF ev.text = Nil THEN "session error" ELSE ev.text)
                 ELSE evtErr[t],
     done    |-> done[t] \/ ev.type \in {SessionIdle, SessionError},
     panic   |-> ev.type \in {SessionIdle, SessionError} /\ done[t]]

\* the handlers ignore the message of a session.error event
EventErrorDefault(ev) == Err("copilot", "session error")
\* the query forms take a failed Send for a successful one
SendFailedNever(e) == FALSE

\* a cancelled QueryWithSession returns without aborting the session
QAbortSilent(t) ==
    /\ pc[t] = "QAbort"
    /\ ret' = [ret EXCEPT ![t] = RetErr(Err("ctx", ctx[t]))]
    /\ pc' = [pc EXCEPT ![t] = "QUnsub"]
    /\ UNCHANGED <<clientVars, op, ctx, argVars, startVars, entryVars, life,
                   calls, ncalls, qsVars>>

\* the handler of QueryStream puts each item in front of the earlier ones
SHandlerPrepend(t, ev) ==
    LET full == IF ev.type = AssistantMessageDelta /\ ev.text # Nil
                THEN fullContent[t] \o ev.text
                ELSE IF ev.type = AssistantMessage /\ ev.text # Nil
                THEN ev.text
                ELSE fullContent[t]
        item == IF ev.type = AssistantMessageDelta
                THEN Item(ev.text, "", FALSE, NoErr)
                ELSE IF ev.type = SessionIdle
                THEN Item("", fullContent[t], TRUE, NoErr)
                ELSE Item("", "", FALSE,
                          Err("copilot", IF ev.text = Nil THEN "session error" ELSE ev.text))
        sends == \/ ev.type = AssistantMessageDelta /\ ev.text # Nil
                 \/ ev.type \in {SessionIdle, SessionError}
    IN  [fullContent |-> full,
         events |-> IF sends /\ ~closed[t] THEN <<item>> \o events[t] ELSE events[t],
         closed |-> closed[t] \/ ev.type \in {SessionIdle, SessionError},
         panic  |-> sends /\ closed[t]]

\* the handler of QueryStream ignores assistant.message events
AccumulateDeltasOnly(full, ev) ==
    IF ev.type = AssistantMessageDelta /\ ev.text # Nil THEN full \o ev.text ELSE full

\* the handler of QueryStream closes the channel on a terminal event
\* without sending an item for it
SendsDeltasOnly(ev) == ev.type = AssistantMessageDelta /\ ev.text # Nil

\* QueryStream returns the channel along with the Send error
StreamFailureWithChannel(e) ==
    [NoRet EXCEPT !.err = Err("sending message", e.cause), !.ch = TRUE]

\* the handler of QueryStream forwards a delta event that has no text too
SendsEveryDelta(ev) ==
    ev.type \in {AssistantMessageDelta, SessionIdle, SessionError}

\* the goroutine of QueryStream exits without unsubscribing the handler
WatcherLeak(t) ==
    /\ ~crashed
    /\ watcher[t] = "waiting"
    /\ ctx[t] # CtxLive
    /\ watcher' = [watcher EXCEPT ![t] = "exited"]
    /\ UNCHANGED <<clientVars, pc, op, ctx, argVars, ret, startVars, entryVars,
                   life, calls, ncalls, queryVars, fullContent, events, closed,
                   received, envVars>>

\* getOrCreateSession creates a session whatever the sessionID
getOrCreateSessionAlwaysCreates(sid) == "CreateSession"

\* the error of getOrCreateSession is not looked at
SetupFailedNever(e) == FALSE

\* the bridge returns the handler's error to the SDK
FailureErrorPropagated(h) == h.err

\* every client error is answered 500
ErrorStatusAlways500(err) == StatusInternalServerError

\* WithRetryAttempts accepts any number
AttemptsRejectedNever(n) == FALSE

\* QueryWithSession returns without running the deferred unsubscribe
QUnsubSkipped(t) ==
    /\ pc[t] = "QUnsub"
    /\ pc' = [pc EXCEPT ![t] = "Return"]
    /\ UNCHANGED <<clientVars, op, ctx, argVars, ret, startVars, entryVars, life,
                   calls, ncalls, qsVars>>

\* QueryWithSession aborts the session on the done case of its select too
QReadAborts(t) ==
    /\ pc[t] = "QRead"
    /\ calls' = [calls EXCEPT ![t]["Abort"] = @ + 1]
    /\ ret' = [ret EXCEPT ![t] =
            IF evtErr[t] # NoErr
            THEN [NoRet EXCEPT !.err = evtErr[t]]
            ELSE [NoRet EXCEPT !.nilRes = FALSE, !.Content = content[t],
                               !.SessionID = session[t]]]
    /\ pc' = [pc EXCEPT ![t] = "QUnsub"]
    /\ UNCHANGED <<clientVars, op, ctx, argVars, startVars, entryVars, life,
                   ncalls, qsVars>>

\* a Ping that the remote agent fails marks the client not connected
PingSdkClearsFlag(t) ==
    /\ pc[t] = "PingSdk"
    /\ \E e \in {NoErr, Err("sdk", SdkErr)} :
        /\ ret' = [ret EXCEPT ![t] = RetErr(e)]
        /\ connected' = (connected /\ e = NoErr)
    /\ calls' = Count(t, "Ping")
    /\ pc' = [pc EXCEPT ![t] = "Unlock"]
    /\ UNCHANGED <<cfg, sideVars, muW, muR, op, ctx, argVars, startVars,
                   entryVars, life, ncalls, qsVars>>

\* ------------------------------------------------------------- Client.Start
\* if c.connected { return ErrAlreadyConnected }
AlreadyConnected(c) == c
\* for attempt := range c.cfg.retryAttempts
InRange(a) == a < cfg.retryAttempts
\* if err == nil { c.connected = true; return nil }
AttemptOk(r) == r = "ok"
\* if attempt < c.cfg.retryAttempts-1 { select ... }: no wait after the last attempt
MoreAttempts(a) == a < cfg.retryAttempts - 1
\* return fmt.Errorf("%w: %w", ErrSidecarUnavailable, ctx.Err())
CancelFailure(t) == ErrSidecarUnavailable(ctx[t])
\* return fmt.Errorf("%w: %w", ErrSidecarUnavailable, lastErr)
StartFailure(t) == ErrSidecarUnavailable(lastErr[t])

CallStart(t) == Begin(t, "Start", "", "", "StartLock")

\* c.mu.Lock(); if c.connected { return ErrAlreadyConnected };
\* delay := c.cfg.retryDelay; the loop begins at attempt 0
StartLock(t) ==
    /\ pc[t] = "StartLock"
    /\ CanLock
    /\ muW' = t
    /\ Enter(t)
    /\ IF AlreadyConnected(connected)
       THEN /\ ret' = [ret EXCEPT ![t] = RetErr(ErrAlreadyConnected)]
            /\ pc' = [pc EXCEPT ![t] = "Unlock"]
            /\ UNCHANGED delay
       ELSE /\ delay' = [delay EXCEPT ![t] = cfg.retryDelay]
            /\ pc' = [pc EXCEPT ![t] =
                    IF InRange(0) THEN "StartAttempt" ELSE "StartExhausted"]
            /\ UNCHANGED ret
    /\ UNCHANGED <<cfg, sideVars, connected, muR, op, ctx, argVars, attempt, lastErr,
                   outcomes, slept, life, calls, ncalls, qsVars>>

\* one iteration: err := c.sdk.Start(connCtx); on success connected = true
\* and return nil; else lastErr = err and, unless this was the last attempt,
\* the select on ctx.Done() and time.After(delay) begins
StartAttempt(t) ==
    /\ pc[t] = "StartAttempt"
    /\ \E r \in {"ok", StartErr(attempt[t] + 1)} :
        /\ calls' = Count(t, "Start")
        /\ outcomes' = [outcomes EXCEPT ![t] = Append(@, r)]
        /\ IF AttemptOk(r)
           THEN /\ connected' = TRUE
                /\ life' = "started"
                /\ ret' = [ret EXCEPT ![t] = RetErr(NoErr)]
                /\ pc' = [pc EXCEPT ![t] = "Unlock"]
                /\ UNCHANGED <<lastErr, attempt, slept>>
           ELSE /\ lastErr' = [lastErr EXCEPT ![t] = r]
                /\ UNCHANGED <<connected, life, ret>>
                /\ IF MoreAttempts(attempt[t])
                   THEN /\ slept' = [slept EXCEPT ![t] = Append(@, delay[t])]
                        /\ UNCHANGED attempt
                        \* the goroutine parks in the select; a context that
                        \* has already completed is ready at once
                        /\ pc' = [pc EXCEPT ![t] =
                                IF ctx[t] = CtxLive THEN "StartWait" ELSE "StartSelect"]
                   ELSE /\ attempt' = [attempt EXCEPT ![t] = @ + 1]
                        /\ pc' = [pc EXCEPT ![t] =
                                IF InRange(attempt[t] + 1) THEN "StartAttempt"
                                ELSE "StartExhausted"]
                        /\ UNCHANGED slept
    /\ UNCHANGED <<cfg, sideVars, muW, muR, op, ctx, argVars, delay, entryVars, ncalls, qsVars>>

\* case <-time.After(delay): delay *= 2, next iteration.  The timer fires
\* while the goroutine is parked (StartWait), or is found ready together
\* with ctx.Done() when the select is entered (StartSelect)
StartTimer(t) ==
    /\ pc[t] \in {"StartWait", "StartSelect"}
    /\ delay' = [delay EXCEPT ![t] = Double(@)]
    /\ attempt' = [attempt EXCEPT ![t] = @ + 1]
    /\ pc' = [pc EXCEPT ![t] =
            IF InRange(attempt[t] + 1) THEN "StartAttempt" ELSE "StartExhausted"]
    /\ UNCHANGED <<clientVars, op, ctx, argVars, lastErr, ret, outcomes, slept,
                   entryVars, life, calls, ncalls, qsVars>>

\* case <-ctx.Done(): return SidecarUnavailable wrapping ctx.Err()
StartCancelled(t) ==
    /\ pc[t] \in {"StartCancelled", "StartSelect"}
    /\ ret' = [ret EXCEPT ![t] = RetErr(CancelFailure(t))]
    /\ pc' = [pc EXCEPT ![t] = "Unlock"]
    /\ UNCHANGED <<clientVars, op, ctx, argVars, startVars, entryVars, life,
                   calls, ncalls, qsVars>>

\* after the loop: return SidecarUnavailable wrapping lastErr
StartExhausted(t) ==
    /\ pc[t] = "StartExhausted"
    /\ ret' = [ret EXCEPT ![t] = RetErr(StartFailure(t))]
    /\ pc' = [pc EXCEPT ![t] = "Unlock"]
    /\ UNCHANGED <<clientVars, op, ctx, argVars, startVars, entryVars, life,
                   calls, ncalls, qsVars>>

\* the deferred c.mu.Unlock() / c.mu.RUnlock() runs and the call returns
\* what ret holds
Unlock(t) ==
    /\ pc[t] = "Unlock"
    /\ muW' = IF muW = t THEN NoProc ELSE muW
    /\ muR' = muR \ {t}
    /\ Forget(t)

\* -------------------------------------------------------------- Client.Stop
\* if !c.connected { return ... }: the check of Stop, Ping, the query forms
\* and DestroySession
NotConnected(c) == ~c
\* err := c.sdk.Stop(); c.connected = false: whatever err is
StopConnected(e) == FALSE

CallStop(t) == Begin(t, "Stop", "", "", "StopLock")

\* c.mu.Lock(); if !c.connected { return nil }
StopLock(t) ==
    /\ pc[t] = "StopLock"
    /\ CanLock
    /\ muW' = t
    /\ Enter(t)
    /\ IF NotConnected(connected)
       THEN /\ ret' = [ret EXCEPT ![t] = RetErr(NoErr)]
            /\ pc' = [pc EXCEPT ![t] = "Unlock"]
       ELSE /\ pc' = [pc EXCEPT ![t] = "StopSdk"]
            /\ UNCHANGED ret
    /\ UNCHANGED <<cfg, sideVars, connected, muR, op, ctx, argVars, startVars, life,
                   calls, ncalls, qsVars>>

\* err := c.sdk.Stop(); c.connected = false; return err
StopSdk(t) ==
    /\ pc[t] = "StopSdk"
    /\ \E e \in {NoErr, Err("sdk", SdkErr)} :
        /\ ret' = [ret EXCEPT ![t] = RetErr(e)]
        /\ life' = IF e = NoErr THEN "stopped" ELSE "stop failed"
        /\ connected' = StopConnected(e)
    /\ calls' = Count(t, "Stop")
    /\ pc' = [pc EXCEPT ![t] = "Unlock"]
    /\ UNCHANGED <<cfg, sideVars, muW, muR, op, ctx, argVars, startVars, entryVars,
                   ncalls, qsVars>>

\* ------------------------------------------------------- Client.IsConnected
CallIsConnected(t) == Begin(t, "IsConnected", "", "", "IsConnectedRLock")

\* c.mu.RLock(); return c.connected
IsConnectedRLock(t) ==
    /\ pc[t] = "IsConnectedRLock"
    /\ CanRLock
    /\ muR' = muR \cup {t}
    /\ Enter(t)
    /\ ret' = [ret EXCEPT ![t] = [NoRet EXCEPT !.b = connected]]
    /\ pc' = [pc EXCEPT ![t] = "Unlock"]
    /\ UNCHANGED <<cfg, sideVars, connected, muW, op, ctx, argVars, startVars, life,
                   calls, ncalls, qsVars>>

\* -------------------------------------------------------------- Client.Ping
CallPing(t) == Begin(t, "Ping", "", "", "PingRLock")

\* c.mu.RLock(); if !c.connected { return ErrNotConnected }
PingRLock(t) ==
    /\ pc[t] = "PingRLock"
    /\ CanRLock
    /\ muR' = muR \cup {t}
    /\ Enter(t)
    /\ IF NotConnected(connected)
       THEN /\ ret' = [ret EXCEPT ![t] = RetErr(ErrNotConnected)]
            /\ pc' = [pc EXCEPT ![t] = "Unlock"]
       ELSE /\ pc' = [pc EXCEPT ![t] = "PingSdk"]
            /\ UNCHANGED ret
    /\ UNCHANGED <<cfg, sideVars, connected, muW, op, ctx, argVars, startVars, life,
                   calls, ncalls, qsVars>>

\* _, err := c.sdk.Ping(ctx, "health"); return err
PingSdk(t) ==
    /\ pc[t] = "PingSdk"
    /\ \E e \in {NoErr, Err("sdk", SdkErr)} :
        ret' = [ret EXCEPT ![t] = RetErr(e)]
    /\ calls' = Count(t, "Ping")
    /\ pc' = [pc EXCEPT ![t] = "Unlock"]
    /\ UNCHANGED <<clientVars, op, ctx, argVars, startVars, entryVars, life,
                   ncalls, qsVars>>

\* ---------------------------------------------------- Client.DestroySession
CallDestroySession(t, sid) == Begin(t, "DestroySession", sid, "", "DestroyCheck")

\* a call that holds no lock returns what ret holds.  A QueryStream call
\* that made its channel leaves the channel with the caller and its
\* goroutine behind (StreamReturn)
Lingers(t) == op[t] = "QueryStream" /\ watcher[t] # "none"

Return(t) ==
    /\ pc[t] = "Return"
    /\ ~Lingers(t)
    /\ Forget(t)
    /\ UNCHANGED <<muW, muR>>

\* c.mu.RLock(); if !c.connected { c.mu.RUnlock(); return ErrNotConnected };
\* c.mu.RUnlock()
DestroyCheck(t) ==
    /\ pc[t] = "DestroyCheck"
    /\ CanRLock
    /\ Enter(t)
    /\ IF NotConnected(connected)
       THEN /\ ret' = [ret EXCEPT ![t] = RetErr(ErrNotConnected)]
            /\ pc' = [pc EXCEPT ![t] = "Return"]
       ELSE /\ pc' = [pc EXCEPT ![t] = "DestroySdk"]
            /\ UNCHANGED ret
    /\ UNCHANGED <<clientVars, op, ctx, argVars, startVars, life, calls, ncalls,
                   qsVars>>

\* return c.sdk.DeleteSession(ctx, sessionID)
DestroySdk(t) ==
    /\ pc[t] = "DestroySdk"
    /\ \E e \in {NoErr, Err("sdk", SdkErr)} :
        ret' = [ret EXCEPT ![t] = RetErr(e)]
    /\ calls' = Count(t, "DeleteSession")
    /\ pc' = [pc EXCEPT ![t] = "Return"]
    /\ UNCHANGED <<clientVars, op, ctx, argVars, startVars, entryVars, life,
                   ncalls, qsVars>>

\* --------------------------------------------------- Client.getOrCreateSession
\* what c.sdk.CreateSession / ResumeSessionWithOptions may return: an error,
\* or a session handle (named by its ID()): a created session has any id, a
\* resumed one the id asked for
Resolutions(sid) ==
    [err : {Err("sdk", SdkErr)}, id : {""}]
    \cup [err : {NoErr}, id : IF sid # "" THEN {sid} ELSE SessionIDs]

\* the remote call getOrCreateSession makes for this sessionID
getOrCreateSession(sid) == IF sid # "" THEN "ResumeSession" ELSE "CreateSession"

\* the id the call carries: c.sdk.ResumeSessionWithOptions(ctx, sessionID,
\* resumeCfg) passes the caller's sessionID, CreateSession passes none
ResumeArg(sid) == IF getOrCreateSession(sid) = "ResumeSession" THEN sid ELSE ""

\* ------------------------------------- Client.Query, Client.QueryWithSession
\* if prompt == "" { return nil, ErrEmptyPrompt }
PromptEmpty(p) == p = ""

QueryWithSession(t, sid, p) ==
    Begin(t, "QueryWithSession", sid, p, IF PromptEmpty(p) THEN "EmptyPrompt" ELSE "Check")

\* return c.QueryWithSession(ctx, "", prompt)
Query(t, p) == QueryWithSession(t, "", p)

QueryStream(t, sid, p) ==
    Begin(t, "QueryStream", sid, p, IF PromptEmpty(p) THEN "EmptyPrompt" ELSE "Check")

EmptyPrompt(t) ==
    /\ pc[t] = "EmptyPrompt"
    /\ ret' = [ret EXCEPT ![t] = RetErr(ErrEmptyPrompt)]
    /\ pc' = [pc EXCEPT ![t] = "Return"]
    /\ UNCHANGED <<clientVars, op, ctx, argVars, startVars, entryVars, life,
                   calls, ncalls, qsVars>>

IsQuery(t) == op[t] = "QueryWithSession"
IsStream(t) == op[t] = "QueryStream"

\* c.mu.RLock(); if !c.connected { c.mu.RUnlock(); return ErrNotConnected };
\* c.mu.RUnlock()
Check(t) ==
    /\ pc[t] = "Check"
    /\ CanRLock
    /\ Enter(t)
    /\ IF NotConnected(connected)
       THEN /\ ret' = [ret EXCEPT ![t] = RetErr(ErrNotConnected)]
            /\ pc' = [pc EXCEPT ![t] = "Return"]
       ELSE /\ pc' = [pc EXCEPT ![t] = "Session"]
            /\ UNCHANGED ret
    /\ UNCHANGED <<clientVars, op, ctx, argVars, startVars, life, calls, ncalls,
                   qsVars>>

\* session, err := c.getOrCreateSession(...); if err != nil
SetupFailed(e) == e # NoErr

\* session, err := c.getOrCreateSession(ctx, sessionID); on error return
\* "session setup: ...".  Otherwise the locals are made and the handler is
\* registered: unsubscribe := session.On(...); QueryStream also starts the
\* goroutine that waits for ctx.Done()
Session(t) ==
    /\ pc[t] = "Session"
    /\ \E r \in Resolutions(ResumeArg(sessionID[t])) :
        IF SetupFailed(r.err)
        THEN /\ calls' = Count(t, getOrCreateSession(sessionID[t]))
             /\ ret' = [ret EXCEPT ![t] = RetErr(Err("session setup", r.err.cause))]
             /\ pc' = [pc EXCEPT ![t] = "Return"]
             /\ UNCHANGED <<session, subscribed, watcher>>
        ELSE /\ calls' = [calls EXCEPT
                    ![t][getOrCreateSession(sessionID[t])] = @ + 1, ![t]["On"] = @ + 1]
             /\ session' = [session EXCEPT ![t] = r.id]
             /\ subscribed' = [subscribed EXCEPT ![t] = TRUE]
             /\ watcher' = [watcher EXCEPT ![t] = IF IsStream(t) THEN "waiting" ELSE @]
             /\ pc' = [pc EXCEPT ![t] = "Send"]
             /\ UNCHANGED ret
    /\ UNCHANGED <<clientVars, op, ctx, argVars, startVars, entryVars, life,
                   ncalls, content, evtErr, done, fullContent, events, closed,
                   received, envVars>>

\* the select of QueryWithSession is entered: a case that is ready is taken
\* (either one when both are), else the goroutine parks
QSelect(t) ==
    IF done[t] /\ ctx[t] # CtxLive THEN {"QRead", "QAbort"}
    ELSE IF done[t] THEN {"QRead"}
    ELSE IF ctx[t] # CtxLive THEN {"QAbort"}
    ELSE {"QAwait"}

\* if _, err := session.Send(...); err != nil
SendFailed(e) == e # NoErr
\* QueryStream: return nil, "", fmt.Errorf("sending message: %w", err)
StreamFailure(e) == RetErr(Err("sending message", e.cause))

\* session.Send(ctx, ...).  QueryWithSession: on error return "sending
\* message: ..." (the deferred unsubscribe runs), else enter the select.
\* QueryStream: on error unsubscribe(), close(events) and return the error,
\* else return events and session.ID()
Send(t) ==
    /\ pc[t] = "Send"
    /\ \E e \in {NoErr, Err("sdk", SdkErr)} :
        /\ sent' = [sent EXCEPT ![t] = IF e = NoErr THEN "ok" ELSE "failed"]
        /\ IF IsQuery(t)
           THEN /\ IF SendFailed(e)
                   THEN /\ ret' = [ret EXCEPT ![t] = RetErr(Err("sending message", e.cause))]
                        /\ pc' = [pc EXCEPT ![t] = "QUnsub"]
                   ELSE /\ \E next \in QSelect(t) : pc' = [pc EXCEPT ![t] = next]
                        /\ UNCHANGED ret
                /\ calls' = Count(t, "Send")
                /\ UNCHANGED <<subscribed, closed, crashed>>
           ELSE IF SendFailed(e)
                THEN /\ subscribed' = [subscribed EXCEPT ![t] = FALSE]
                     /\ calls' = [calls EXCEPT ![t]["Send"] = @ + 1,
                                               ![t]["Unsubscribe"] = @ + 1]
                     \* close of a channel the handler has closed already panics
                     /\ crashed' = closed[t]
                     /\ closed' = [closed EXCEPT ![t] = TRUE]
                     /\ ret' = [ret EXCEPT ![t] = StreamFailure(e)]
                     /\ pc' = IF closed[t] THEN Crash ELSE [pc EXCEPT ![t] = "Return"]
                ELSE /\ ret' = [ret EXCEPT ![t] =
                           [NoRet EXCEPT !.ch = TRUE, !.SessionID = session[t]]]
                     /\ pc' = [pc EXCEPT ![t] = "Return"]
                     /\ calls' = Count(t, "Send")
                     /\ UNCHANGED <<subscribed, closed, crashed>>
    /\ UNCHANGED <<clientVars, op, ctx, argVars, startVars, entryVars, life,
                   ncalls, session, content, evtErr, done, fullContent, events,
                   received, watcher, lastMsg, idleMsg, errText, deltas, msgAt,
                   nevents>>

\* case <-ctx.Done(): _ = session.Abort(ctx); return nil, ctx.Err()
QAbort(t) ==
    /\ pc[t] = "QAbort"
    /\ calls' = Count(t, "Abort")
    /\ ret' = [ret EXCEPT ![t] = RetErr(Err("ctx", ctx[t]))]
    /\ pc' = [pc EXCEPT ![t] = "QUnsub"]
    /\ UNCHANGED <<clientVars, op, ctx, argVars, startVars, entryVars, life,
                   ncalls, qsVars>>

\* what QueryWithSession returns after <-done
QResult(t) ==
    IF evtErr[t] # NoErr
    THEN RetErr(evtErr[t])
    ELSE [NoRet EXCEPT !.nilRes = FALSE, !.Content = content[t],
                       !.SessionID = session[t]]

\* case <-done: mu.Lock(); return nil, evtErr or the QueryResult
QRead(t) ==
    /\ pc[t] = "QRead"
    /\ ret' = [ret EXCEPT ![t] = QResult(t)]
    /\ pc' = [pc EXCEPT ![t] = "QUnsub"]
    /\ UNCHANGED <<clientVars, op, ctx, argVars, startVars, entryVars, life,
                   calls, ncalls, qsVars>>

\* the deferred mu.Unlock() and unsubscribe() run
QUnsub(t) ==
    /\ pc[t] = "QUnsub"
    /\ subscribed' = [subscribed EXCEPT ![t] = FALSE]
    /\ calls' = Count(t, "Unsubscribe")
    /\ pc' = [pc EXCEPT ![t] = "Return"]
    /\ UNCHANGED <<clientVars, op, ctx, argVars, ret, startVars, entryVars, life,
                   ncalls, session, content, evtErr, done, streamVars, envVars>>

\* ------------------------------------------------------ Client.QueryStream
\* variant: QueryStream hands the channel to the caller only once an item is on it
StreamReturnAfterFirstItem(t) ==
    /\ pc[t] = "Return"
    /\ Lingers(t)
    /\ Len(events[t]) > 0
    /\ pc' = [pc EXCEPT ![t] = "Streaming"]
    /\ UNCHANGED <<clientVars, op, ctx, argVars, ret, startVars, entryVars, life,
                   calls, ncalls, qsVars>>

\* return events, session.ID(), nil (or the Send error): the call returns
\* and leaves its goroutine behind
StreamReturn(t) ==
    /\ pc[t] = "Return"
    /\ Lingers(t)
    /\ pc' = [pc EXCEPT ![t] = "Streaming"]
    /\ UNCHANGED <<clientVars, op, ctx, argVars, ret, startVars, entryVars, life,
                   calls, ncalls, qsVars>>

\* go func() { <-ctx.Done(); unsubscribe() }()
Watcher(t) ==
    /\ ~crashed
    /\ watcher[t] = "waiting"
    /\ ctx[t] # CtxLive
    /\ watcher' = [watcher EXCEPT ![t] = "exited"]
    /\ subscribed' = [subscribed EXCEPT ![t] = FALSE]
    /\ calls' = Count(t, "Unsubscribe")
    /\ UNCHANGED <<clientVars, pc, op, ctx, argVars, ret, startVars, entryVars,
                   life, ncalls, session, content, evtErr, done, fullContent,
                   events, closed, received, envVars>>

\* the caller receives the next item from the channel
Recv(t) ==
    /\ pc[t] = "Streaming"
    /\ ret[t].ch
    /\ received[t] < Len(events[t])
    /\ received' = [received EXCEPT ![t] = @ + 1]
    /\ UNCHANGED <<clientVars, pc, op, ctx, argVars, ret, startVars, entryVars,
                   life, calls, ncalls, queryVars, fullContent, events, closed,
                   watcher, envVars>>

\* the goroutine has exited and the caller lets go of the channel: nothing
\* of the call is left
Drop(t) ==
    /\ pc[t] = "Streaming"
    /\ watcher[t] = "exited"
    /\ Forget(t)
    /\ UNCHANGED <<muW, muR>>

\* ------------------------------------------------------- the event handlers
\* variant: every registered handler is run, whatever its session
SubsOfAnySession(h) == {t \in Procs : subscribed[t]}

\* the handlers registered on the session whose ID() is h
Subs(h) == {t \in Procs : subscribed[t] /\ session[t] = h}

Terminal(ev) == ev.type \in {SessionIdle, SessionError}
\* msg := "session error"; if event.Data.Message != nil { msg = *event.Data.Message };
\* fmt.Errorf("copilot: %s", msg)
EventError(ev) == Err("copilot", IF ev.text = Nil THEN "session error" ELSE ev.text)

\* The handler of QueryWithSession, run on event ev: the new content, evtErr
\* and done, and whether it panics (close of the closed done channel)
QHandler(t, ev) ==
    [content |-> IF ev.type = AssistantMessage /\ ev.text # Nil
                 THEN ev.text ELSE content[t],
     evtErr  |-> IF ev.type = SessionError THEN EventError(ev) ELSE evtErr[t],
     done    |-> done[t] \/ Terminal(ev),
     panic   |-> Terminal(ev) /\ done[t]]

\* whether the handler of QueryStream sends an item for ev
Sends(ev) ==
    \/ ev.type = AssistantMessageDelta /\ ev.text # Nil
    \/ Terminal(ev)

\* fullContent after the handler of QueryStream has run on ev: a delta with
\* text is appended (fullContent += *DeltaContent), an assistant.message
\* with content replaces it (fullContent = *Content)
Accumulate(full, ev) ==
    IF ev.type = AssistantMessageDelta /\ ev.text # Nil
    THEN full \o ev.text
    ELSE IF ev.type = AssistantMessage /\ ev.text # Nil
    THEN ev.text
    ELSE full

\* The handler of QueryStream, run on event ev: the new fullContent, the
\* items sent, whether the channel is closed, and whether it panics (send
\* on, or close of, the closed events channel)
SHandler(t, ev) ==
    LET full == Accumulate(fullContent[t], ev)
        item == IF ev.type = AssistantMessageDelta
                THEN Item(ev.text, "", FALSE, NoErr)
                ELSE IF ev.type = SessionIdle
                THEN Item("", fullContent[t], TRUE, NoErr)
                ELSE Item("", "", FALSE, EventError(ev))
    IN  [fullContent |-> full,
         events |-> IF Sends(ev) /\ ~closed[t] THEN Append(events[t], item) ELSE events[t],
         closed |-> closed[t] \/ Terminal(ev),
         panic  |-> Sends(ev) /\ closed[t]]

\* The remote agent emits ev on session h: every handler registered on it
\* runs.  A handler of QueryStream blocks while the channel is full.  The
\* close of done wakes a QueryWithSession parked in its select.
Emit(h, ev) ==
    /\ ~crashed
    /\ nevents < MaxEvents
    /\ Subs(h) # {}
    /\ \A t \in Subs(h) :
        IsStream(t) /\ Sends(ev) => Len(events[t]) - received[t] < StreamBuffer
    /\ nevents' = nevents + 1
    /\ LET Q == {t \in Subs(h) : IsQuery(t)}
           S == {t \in Subs(h) : IsStream(t)}
       IN  /\ content' = [t \in Procs |-> IF t \in Q THEN QHandler(t, ev).content ELSE content[t]]
           /\ evtErr' = [t \in Procs |-> IF t \in Q THEN QHandler(t, ev).evtErr ELSE evtErr[t]]
           /\ done' = [t \in Procs |-> IF t \in Q THEN QHandler(t, ev).done ELSE done[t]]
           /\ fullContent' = [t \in Procs |->
                    IF t \in S THEN SHandler(t, ev).fullContent ELSE fullContent[t]]
           /\ events' = [t \in Procs |-> IF t \in S THEN SHandler(t, ev).events ELSE events[t]]
           /\ closed' = [t \in Procs |-> IF t \in S THEN SHandler(t, ev).closed ELSE closed[t]]
           /\ crashed' = (\/ \E t \in Q : QHandler(t, ev).panic
                          \/ \E t \in S : SHandler(t, ev).panic)
           /\ pc' = IF crashed' THEN Crash
                    ELSE [t \in Procs |->
                            IF t \in Q /\ pc[t] = "QAwait" /\ Terminal(ev)
                            THEN "QRead" ELSE pc[t]]
    /\ lastMsg' = [t \in Procs |->
            IF t \in Subs(h) /\ ev.type = AssistantMessage /\ ev.text # Nil
            THEN ev.text ELSE lastMsg[t]]
    /\ idleMsg' = [t \in Procs |->
            IF t \in Subs(h) /\ ev.type = SessionIdle /\ idleMsg[t] = Nil
            THEN (IF lastMsg[t] = Nil THEN "" ELSE lastMsg[t]) ELSE idleMsg[t]]
    /\ errText' = [t \in Procs |->
            IF t \in Subs(h) /\ ev.type = SessionError /\ errText[t] = "none"
            THEN ev.text ELSE errText[t]]
    /\ deltas' = [t \in Procs |->
            IF t \in Subs(h) /\ IsStream(t) /\ ev.type = AssistantMessageDelta
            THEN Append(deltas[t], ev.text) ELSE deltas[t]]
    /\ msgAt' = [t \in Procs |->
            IF t \in Subs(h) /\ IsStream(t) /\ ev.type = AssistantMessage
                /\ ev.text # Nil
            THEN Len(deltas[t]) ELSE msgAt[t]]
    /\ UNCHANGED <<clientVars, op, ctx, argVars, ret, startVars, entryVars, life,
                   calls, ncalls, session, subscribed, received, watcher, sent>>

\* ------------------------------------------------------------- the context
\* The caller's context completes (it is cancelled, or its deadline passes)
\* while the call, or the goroutine it left behind, can still observe it.
\* A Start or a QueryWithSession parked in its select wakes with the
\* ctx.Done() case.  Stop and IsConnected take no context; Ping and
\* DestroySession only pass theirs on to the remote agent.
CtxDone(t) ==
    /\ ~crashed
    /\ op[t] \in {"Start", "QueryWithSession", "QueryStream"}
    /\ \/ pc[t] \notin {"idle", "Unlock", "Return", "QUnsub", "Streaming"}
       \/ watcher[t] = "waiting"
    /\ ctx[t] = CtxLive
    /\ \E e \in CtxErrs : ctx' = [ctx EXCEPT ![t] = e]
    /\ pc' = [pc EXCEPT ![t] =
            CASE @ = "StartWait" -> "StartCancelled"
              [] @ = "QAwait" -> "QAbort"
              [] OTHER -> @]
    /\ UNCHANGED <<clientVars, op, argVars, ret, startVars, entryVars, life,
                   calls, ncalls, qsVars>>

\* ---------------------------------------------- ToolDefinition.toSDKTool
\* args, ok := invocation.Arguments.(map[string]any)
IsMap(a) == a = MapType
\* result, err := td.Handler(args); if err != nil
HandlerFailed(h) == h.err # Nil
\* the error the bridge returns with the result of a failed handler: nil
FailureError(h) == Nil

\* if !ok { return copilot.ToolResult{}, fmt.Errorf("unexpected arguments
\* type: %T", invocation.Arguments) }
ToolAssert ==
    /\ tool.pc = "Assert"
    /\ tool' = IF IsMap(tool.args)
               THEN [tool EXCEPT !.pc = "Handler"]
               ELSE [tool EXCEPT !.pc = "Returned", !.result = NoResult,
                                 !.err = "unexpected arguments type: " \o tool.args]
    /\ UNCHANGED <<apiVars, http, build, chan>>

\* td.Handler(args): the caller's handler runs
ToolHandler ==
    /\ tool.pc = "Handler"
    /\ tool' = [tool EXCEPT !.pc = "Result", !.invoked = @ + 1]
    /\ UNCHANGED <<apiVars, http, build, chan>>

\* the ToolResult built from what the handler returned
ToolResult(name, h) ==
    IF HandlerFailed(h)
    THEN [TextResultForLLM |-> "error: " \o h.err, ResultType |-> "error",
          SessionLog |-> "Tool " \o name \o " failed: " \o h.err]
    ELSE [TextResultForLLM |-> h.text, ResultType |-> "success",
          SessionLog |-> "Tool " \o name \o " executed successfully"]

ToolReturn ==
    /\ tool.pc = "Result"
    /\ tool' = [tool EXCEPT !.pc = "Returned",
                            !.result = ToolResult(tool.name, tool.handler),
                            !.err = IF HandlerFailed(tool.handler)
                                    THEN FailureError(tool.handler) ELSE Nil]
    /\ UNCHANGED <<apiVars, http, build, chan>>

\* ------------------------------------- NewQueryHandler, NewStreamHandler
\* strings.TrimSpace: leading and trailing white space removed
RECURSIVE TrimLeft(_)
TrimLeft(p) == IF p # <<>> /\ Head(p) \in WhiteSpace THEN TrimLeft(Tail(p)) ELSE p
RECURSIVE TrimRight(_)
TrimRight(p) ==
    IF p # <<>> /\ p[Len(p)] \in WhiteSpace THEN TrimRight(SubSeq(p, 1, Len(p) - 1)) ELSE p
TrimSpace(p) == TrimRight(TrimLeft(p))

\* status := http.StatusInternalServerError; if errors.Is(err,
\* ErrNotConnected) || errors.Is(err, ErrSidecarUnavailable) { status =
\* http.StatusServiceUnavailable }
ErrorStatus(err) ==
    IF Is(err, ErrNotConnected) \/ Is(err, ErrSidecarUnavailable(""))
    THEN StatusServiceUnavailable
    ELSE StatusInternalServerError

\* writeError / writeJSON / w.WriteHeader: the status is written and the
\* handler is done (the stream handler then relays the events)
Respond(status) == [http EXCEPT !.pc = "Done", !.status = status]

\* flusher, ok := w.(http.Flusher); if !ok { writeError(w, 500, ...) }
HttpFlusher ==
    /\ http.pc = "Flusher"
    /\ http' = IF http.flusher THEN [http EXCEPT !.pc = "Decode"]
               ELSE Respond(StatusInternalServerError)
    /\ UNCHANGED <<apiVars, tool, build, chan>>

\* if err := json.NewDecoder(r.Body).Decode(&req); err != nil
HttpDecode ==
    /\ http.pc = "Decode"
    /\ http' = IF http.body.valid THEN [http EXCEPT !.pc = "Prompt"]
               ELSE Respond(StatusBadRequest)
    /\ UNCHANGED <<apiVars, tool, build, chan>>

\* if strings.TrimSpace(req.Prompt) == ""
HttpPrompt ==
    /\ http.pc = "Prompt"
    /\ http' = IF TrimSpace(http.body.Prompt) = <<>> THEN Respond(StatusBadRequest)
               ELSE [http EXCEPT !.pc = "Client"]
    /\ UNCHANGED <<apiVars, tool, build, chan>>

\* client.QueryWithSession / client.QueryStream(r.Context(), req.SessionID,
\* req.Prompt) returns, and the status is written
HttpClient ==
    /\ http.pc = "Client"
    /\ http' = [Respond(IF http.client # NoErr THEN ErrorStatus(http.client)
                        ELSE StatusOK)
                    EXCEPT !.called = @ + 1]
    /\ UNCHANGED <<apiVars, tool, build, chan>>

\* ---------------------------------------------------- New and the options
\* an option applied to the configuration c: the configuration it leaves and
\* the error it returns (Nil: none)
Applied(c, e) == [cfg |-> c, err |-> e]

\* if url == "" { return errors.New(...) }; c.cliURL = url
WithCLIURL(url, c) ==
    IF url = "" THEN Applied(c, "CLI URL must not be empty")
    ELSE Applied([c EXCEPT !.cliURL = url], Nil)
WithModel(model, c) ==
    IF model = "" THEN Applied(c, "model must not be empty")
    ELSE Applied([c EXCEPT !.model = model], Nil)
WithStreaming(enabled, c) == Applied([c EXCEPT !.streaming = enabled], Nil)
\* if d <= 0
NotPositive(d) == ~IsPositive(d)
WithConnTimeout(d, c) ==
    IF NotPositive(d) THEN Applied(c, "connection timeout must be positive")
    ELSE Applied([c EXCEPT !.connTimeout = d], Nil)
\* if n <= 0
AttemptsRejected(n) == n <= 0
WithRetryAttempts(n, c) ==
    IF AttemptsRejected(n) THEN Applied(c, "retry attempts must be positive")
    ELSE Applied([c EXCEPT !.retryAttempts = n], Nil)
WithRetryDelay(d, c) ==
    IF NotPositive(d) THEN Applied(c, "retry delay must be positive")
    ELSE Applied([c EXCEPT !.retryDelay = d], Nil)
WithGitHubAuth(c) == Applied([c EXCEPT !.authMode = "github"], Nil)
WithBYOK(baseURL, c) ==
    IF baseURL = "" THEN Applied(c, "ErrMissingProviderBaseURL")
    ELSE Applied([c EXCEPT !.authMode = "byok", !.providerBaseURL = baseURL], Nil)
\* the option of TestNew_ValidationErrors, written inside the package:
\* clearURL := func(c *cfg) error { c.cliURL = ""; return nil }
clearURL(c) == Applied([c EXCEPT !.cliURL = ""], Nil)

\* c.validate()
validate(c) ==
    IF c.cliURL = "" THEN "ErrMissingCLIURL"
    ELSE IF c.authMode = "byok" /\ c.model = "" THEN "ErrMissingModel"
    ELSE IF c.authMode = "byok" /\ c.providerBaseURL = "" THEN "ErrMissingProviderBaseURL"
    ELSE Nil

\* for _, opt := range opts { if err := opt(c); err != nil { return nil,
\* fmt.Errorf("applying option: %w", err) } }: the next option is applied
Apply(r) ==
    /\ build.pc = "Options"
    /\ build.n < MaxOptions
    /\ build' = IF r.err # Nil
                THEN [build EXCEPT !.pc = "Returned", !.cfg = r.cfg, !.n = @ + 1,
                                   !.err = "applying option: " \o r.err]
                ELSE [build EXCEPT !.cfg = r.cfg, !.n = @ + 1]
    /\ UNCHANGED <<apiVars, tool, http, chan>>

\* the options are exhausted: validate, and return &Client{cfg: c, sdk: ...}
\* (connected is the zero value) or the error
Validate ==
    /\ build.pc = "Options"
    /\ build' = IF validate(build.cfg) # Nil
                THEN [build EXCEPT !.pc = "Returned",
                        !.err = "invalid configuration: " \o validate(build.cfg)]
                ELSE [build EXCEPT !.pc = "Returned", !.client = TRUE,
                                   !.connected = FALSE]
    /\ UNCHANGED <<apiVars, tool, http, chan>>

\* NewStreamHandler's loop 'for event := range events' over the channel of
\* the QueryStream call of t, as the consumer of that call: it has returned
\* once it received an item with Error or IsFinal (it writes the record and
\* returns), or once the channel is closed and drained (the range ends)
LoopReturned(t) ==
    \/ \E i \in 1..received[t] :
            events[t][i].Error # NoErr \/ events[t][i].IsFinal
    \/ closed[t] /\ received[t] = Len(events[t])

\* ------------------------------ QueryStream: the handler and its channel
\* variant: a channel that takes any number of items
FullNever(b) == FALSE

\* events := make(chan StreamEvent, 64): a send blocks while 64 items wait
Full(b) == Len(b) >= StreamBuffer

\* the StreamEvent the handler sends for ev
StreamItem(full, ev) ==
    IF ev.type = AssistantMessageDelta THEN Item(ev.text, "", FALSE, NoErr)
    ELSE IF ev.type = SessionIdle THEN Item("", full, TRUE, NoErr)
    ELSE Item("", "", FALSE, EventError(ev))

\* The session invokes the handler on ev, on its event-delivery thread, once
\* the handler has returned from the event before: the statements up to the
\* send.  A delta adds to fullContent under mu and unlocks; session.idle
\* locks mu and keeps it; session.error takes no lock.
Deliver(ev) ==
    /\ chan.pc = "ready"
    /\ chan.n < MaxDeliveries
    /\ chan' = [chan EXCEPT !.pc = "Send",
                            !.n = @ + 1,
                            !.fullContent = Accumulate(@, ev),
                            !.mu = (ev.type = SessionIdle),
                            !.item = StreamItem(chan.fullContent, ev)]
    /\ UNCHANGED apiVars /\ UNCHANGED <<tool, http, build>>

\* events <- StreamEvent{...}: panics when the channel is closed, blocks
\* while it is full.  After a delta the handler returns; after the final
\* item it unlocks mu and goes on to close(events), as after an error item.
HandlerSend ==
    /\ chan.pc = "Send"
    /\ chan.closed \/ ~Full(chan.buf)
    /\ chan' = IF chan.closed
               THEN [chan EXCEPT !.pc = "panicked", !.panicked = TRUE]
               ELSE [chan EXCEPT !.buf = Append(@, chan.item),
                                 !.mu = FALSE,
                                 !.pc = IF chan.item.IsFinal \/ chan.item.Error # NoErr
                                        THEN "Close" ELSE "ready"]
    /\ UNCHANGED apiVars /\ UNCHANGED <<tool, http, build>>

\* close(events): panics when the channel is closed already
HandlerClose ==
    /\ chan.pc = "Close"
    /\ chan' = IF chan.closed
               THEN [chan EXCEPT !.pc = "panicked", !.panicked = TRUE]
               ELSE [chan EXCEPT !.closed = TRUE, !.pc = "ready"]
    /\ UNCHANGED apiVars /\ UNCHANGED <<tool, http, build>>

\* the consumer receives the oldest item of the channel
Receive ==
    /\ chan.pc # "none"
    /\ ~chan.panicked
    /\ chan.buf # <<>>
    /\ chan' = [chan EXCEPT !.buf = Tail(@)]
    /\ UNCHANGED apiVars /\ UNCHANGED <<tool, http, build>>

\* ------------------------------------------------------------ specification
\* the connection manager's methods
Lifecycle(t) ==
    \/ CallStart(t) \/ StartLock(t) \/ StartAttempt(t) \/ StartTimer(t)
    \/ StartCancelled(t) \/ StartExhausted(t)
    \/ CallStop(t) \/ StopLock(t) \/ StopSdk(t)
    \/ CallIsConnected(t) \/ IsConnectedRLock(t)
    \/ CallPing(t) \/ PingRLock(t) \/ PingSdk(t)
    \/ Unlock(t)
    \/ CtxDone(t)

\* the session and query methods
Queries(t) ==
    \/ \E sid \in SessionArgs : CallDestroySession(t, sid)
    \/ DestroyCheck(t) \/ DestroySdk(t)
    \/ \E p \in Prompts : Query(t, p)
    \/ \E sid \in SessionArgs, p \in Prompts : QueryWithSession(t, sid, p)
    \/ \E sid \in SessionArgs, p \in Prompts : QueryStream(t, sid, p)
    \/ EmptyPrompt(t) \/ Check(t) \/ Session(t) \/ Send(t)
    \/ QAbort(t) \/ QRead(t) \/ QUnsub(t)
    \/ Return(t) \/ StreamReturn(t) \/ Watcher(t) \/ Recv(t) \/ Drop(t)

\* One caller uses the whole API, one call after the other, and the remote
\* agent emits events.
Caller == "p1"

Next ==
    \/ Lifecycle(Caller)
    \/ Queries(Caller)
    \/ \E h \in SessionIDs, ev \in Events : Emit(h, ev)

Spec == Init /\ [][Next]_vars

\* The same, where the goroutine that QueryStream starts is scheduled: once
\* its context is done it does not stay runnable forever without running.
FairSpec == Spec /\ WF_vars(Watcher(Caller))

\* Several callers use the connection manager concurrently.
NextLifecycle == \E t \in Procs : Lifecycle(t)

SpecLifecycle == InitLifecycle /\ [][NextLifecycle]_vars

\* One caller uses the connection manager of a client configured with any
\* number of attempts and a default or a long base delay.
InitBackoff == New(BackoffConfigs) /\ Aside

NextBackoff == Lifecycle(Caller)

SpecBackoff == InitBackoff /\ [][NextBackoff]_vars

\* One caller starts the client, queries and destroys sessions, and cancels
\* its contexts, while another caller stops the client; the remote agent
\* emits no events.
Sharing(t) ==
    \/ CallStart(t) \/ StartLock(t) \/ StartAttempt(t) \/ StartTimer(t)
    \/ StartCancelled(t) \/ StartExhausted(t)
    \/ Unlock(t)
    \/ CtxDone(t)
    \/ \E sid \in SessionArgs : CallDestroySession(t, sid)
    \/ DestroyCheck(t) \/ DestroySdk(t)
    \/ \E sid \in SessionArgs, p \in Prompts : QueryWithSession(t, sid, p)
    \/ \E sid \in SessionArgs, p \in Prompts : QueryStream(t, sid, p)
    \/ EmptyPrompt(t) \/ Check(t) \/ Session(t) \/ Send(t)
    \/ QAbort(t) \/ QUnsub(t)
    \/ Return(t) \/ StreamReturn(t) \/ Watcher(t) \/ Drop(t)

Stopping(t) == CallStop(t) \/ StopLock(t) \/ StopSdk(t) \/ Unlock(t)

Stopper == "p2"

NextShared == Sharing(Caller) \/ Stopping(Stopper)

SpecShared == Init /\ [][NextShared]_vars

\* Two callers share the client: one uses the whole API, the other the
\* connection manager's methods, in any interleaving; sessions run to
\* session.idle.
NextFlag ==
    \/ Lifecycle(Caller) \/ Queries(Caller)
    \/ Lifecycle(Stopper)
    \/ \E h \in SessionIDs : Emit(h, [type |-> SessionIdle, text |-> Nil])

SpecFlag == Init /\ [][NextFlag]_vars

\* Two queries run concurrently on one client: once it is started, one
\* caller runs QueryWithSession and the other QueryStream, on sessions the
\* remote agent creates or resumes, and the agent emits events on any handle.
\* The context of the first caller may complete; that of the streaming
\* caller stays live, so that its goroutine stays parked.
PairEvents ==
    {ev \in Events :
        \/ ev.type \in {AssistantMessage, AssistantMessageDelta} /\ ev.text = "a"
        \/ ev.type \in {SessionIdle, SessionError} /\ ev.text = Nil}

Starting(t) ==
    \/ CallStart(t) \/ StartLock(t) \/ StartAttempt(t) \/ StartTimer(t)
    \/ StartCancelled(t) \/ StartExhausted(t) \/ Unlock(t) \/ CtxDone(t)

Querying(t) ==
    \/ Check(t) \/ Session(t) \/ Send(t)
    \/ QAbort(t) \/ QRead(t) \/ QUnsub(t)
    \/ Return(t) \/ StreamReturn(t) \/ Recv(t)

NextPair ==
    \/ Starting(Caller)
    \/ \E sid \in SessionArgs : QueryWithSession(Caller, sid, "hi")
    \/ \E sid \in SessionArgs : QueryStream(Stopper, sid, "hi")
    \/ Querying(Caller) \/ Querying(Stopper)
    \/ \E h \in SessionIDs, ev \in PairEvents : Emit(h, ev)

SpecPair == Init /\ [][NextPair]_vars

\* The SDK invokes the Handler of a tool that toSDKTool built, with any
\* arguments and any behaviour of the caller's handler.
InitTools ==
    /\ New({c \in Configs : c.retryAttempts = MaxRetry})
    /\ tool \in Invocations
    /\ http = NoRequest
    /\ build = NoBuild
    /\ chan = NoChannel

NextTools == ToolAssert \/ ToolHandler \/ ToolReturn

SpecTools == InitTools /\ [][NextTools]_vars

\* A request of any body is served by the query or the stream handler, and
\* the client returns any outcome.
InitHTTP ==
    /\ New({c \in Configs : c.retryAttempts = MaxRetry})
    /\ tool = NoInvocation
    /\ http \in Requests
    /\ build = NoBuild
    /\ chan = NoChannel

NextHTTP == HttpFlusher \/ HttpDecode \/ HttpPrompt \/ HttpClient

SpecHTTP == InitHTTP /\ [][NextHTTP]_vars

\* New is called with any sequence of at most MaxOptions options.
InitNew ==
    /\ New({c \in Configs : c.retryAttempts = MaxRetry})
    /\ tool = NoInvocation
    /\ http = NoRequest
    /\ build = [NoBuild EXCEPT !.pc = "Options"]
    /\ chan = NoChannel

NextNew ==
    \/ \E url \in URLArgs : Apply(WithCLIURL(url, build.cfg))
    \/ \E model \in ModelArgs : Apply(WithModel(model, build.cfg))
    \/ \E enabled \in BOOLEAN : Apply(WithStreaming(enabled, build.cfg))
    \/ \E d \in DurationArgs : Apply(WithConnTimeout(d, build.cfg))
    \/ \E n \in AttemptArgs : Apply(WithRetryAttempts(n, build.cfg))
    \/ \E d \in DurationArgs : Apply(WithRetryDelay(d, build.cfg))
    \/ Apply(WithGitHubAuth(build.cfg))
    \/ \E baseURL \in BaseURLArgs : Apply(WithBYOK(baseURL, build.cfg))
    \/ Apply(clearURL(build.cfg))
    \/ Validate

SpecNew == InitNew /\ [][NextNew]_vars

\* One QueryStream call has registered its handler and returned its channel;
\* the context stays live, the session delivers events one after the other
\* and the consumer receives at its own pace.
InitChannel ==
    /\ New({c \in Configs : c.retryAttempts = MaxRetry})
    /\ tool = NoInvocation
    /\ http = NoRequest
    /\ build = NoBuild
    /\ chan = [NoChannel EXCEPT !.pc = "ready"]

NextChannel ==
    \/ \E ev \in StreamEvents : Deliver(ev)
    \/ HandlerSend
    \/ HandlerClose
    \/ Receive

SpecChannel == InitChannel /\ [][NextChannel]_vars

\* -------------------------------------------------------------- properties
\* the attempts the current Start of t has made, and how they went
Attempts(t) == Len(outcomes[t])
AllFailed(t) == \A i \in 1..Attempts(t) : outcomes[t][i] # "ok"
\* the call of t has passed its check of the connected flag
PastCheck(t) ==
    pc[t] \notin {"idle", "EmptyPrompt", "Check", "PingRLock", "DestroyCheck",
                  "crashed"}

\* C1: a Start whose context has not completed, whose first k-1 attempts
\* failed and whose k-th attempt succeeded (1 <= k <= retryAttempts) is
\* returning nil, the client is connected, and the remote Start has been
\* invoked exactly k times.
C1_StartSucceedsAtAttemptK ==
    \A t \in Procs :
        LET k == Attempts(t) IN
        (/\ op[t] = "Start" /\ ctx[t] = CtxLive
         /\ k >= 1 /\ outcomes[t][k] = "ok"
         /\ \A i \in 1..(k - 1) : outcomes[t][i] # "ok")
        => /\ k <= cfg.retryAttempts
           /\ pc[t] = "Unlock"
           /\ ret[t] = RetErr(NoErr)
           /\ connected
           /\ calls[t]["Start"] = k

\* a Start returns nil after as many attempts as the configuration allows,
\* all but the last of them failed
C1_Witness ==
    \E t \in Procs :
        /\ op[t] = "Start" /\ pc[t] = "Unlock" /\ ctx[t] = CtxLive
        /\ ret[t].err = NoErr
        /\ cfg.retryAttempts >= 2
        /\ Attempts(t) = cfg.retryAttempts
        /\ calls[t]["Start"] = cfg.retryAttempts

\* C2: a Start whose attempts all fail and whose context never completes
\* begins a wait after each attempt but the last (never more than
\* retryAttempts - 1 waits), and when it returns it has made exactly
\* retryAttempts attempts and retryAttempts - 1 waits, returns
\* SidecarUnavailable wrapping the error of the last attempt, and the client
\* is not connected.
C2_StartExhaustsAttempts ==
    \A t \in Procs :
        (op[t] = "Start" /\ ctx[t] = CtxLive /\ ~entryConn[t] /\ AllFailed(t)
         /\ muW = t)
        => /\ ~connected
           /\ Attempts(t) <= cfg.retryAttempts
           /\ Len(slept[t]) <= cfg.retryAttempts - 1
           /\ pc[t] = "Unlock" =>
                /\ Attempts(t) = cfg.retryAttempts
                /\ calls[t]["Start"] = cfg.retryAttempts
                /\ Len(slept[t]) = cfg.retryAttempts - 1
                /\ ret[t] = RetErr(ErrSidecarUnavailable(outcomes[t][Attempts(t)]))

\* a Start with a live context returns after all its attempts, two or more,
\* have failed
C2_Witness ==
    \E t \in Procs :
        /\ op[t] = "Start" /\ pc[t] = "Unlock" /\ ctx[t] = CtxLive
        /\ cfg.retryAttempts >= 2
        /\ Attempts(t) = cfg.retryAttempts /\ AllFailed(t)
        /\ ret[t].err.kind = "ErrSidecarUnavailable"

\* C3: when the context of a Start completes while the Start is in a wait
\* between attempts, the Start leaves the wait by its ctx.Done() case; from
\* there its next step returns SidecarUnavailable wrapping the context's
\* error, with no further invocation of the remote Start and the client not
\* connected.
C3_StartCancelledInWait ==
    [][\A t \in Procs :
        /\ (pc[t] = "StartWait" /\ ctx[t] = CtxLive /\ ctx'[t] # CtxLive)
            => pc'[t] = "StartCancelled"
        /\ (pc[t] = "StartCancelled" /\ pc'[t] # "StartCancelled")
            => /\ pc'[t] = "Unlock"
               /\ ctx[t] \in CtxErrs
               /\ ret'[t] = RetErr(ErrSidecarUnavailable(ctx[t]))
               /\ calls'[t] = calls[t]
               /\ ~connected /\ ~connected']_vars

\* a Start that was cancelled in its wait after one failed attempt returns
C3_Witness ==
    \E t \in Procs :
        /\ op[t] = "Start" /\ pc[t] = "Unlock"
        /\ ctx[t] \in CtxErrs
        /\ ret[t].err = ErrSidecarUnavailable(ctx[t])
        /\ Attempts(t) = 1 /\ Len(slept[t]) = 1
        /\ cfg.retryAttempts = MaxRetry

\* C4: a Start that finds the connected flag set returns AlreadyConnected,
\* invokes the remote Start zero times and leaves the client connected.
C4_StartRejectedWhenConnected ==
    \A t \in Procs :
        (op[t] = "Start" /\ muW = t /\ entryConn[t])
        => /\ pc[t] = "Unlock"
           /\ ret[t] = RetErr(ErrAlreadyConnected)
           /\ calls[t] = NoCalls
           /\ connected

\* a Start on a connected client returns AlreadyConnected
C4_Witness ==
    \E t \in Procs :
        /\ op[t] = "Start" /\ pc[t] = "Unlock" /\ entryConn[t]
        /\ ret[t].err = ErrAlreadyConnected

\* C5: a Stop that finds the client not connected returns nil without
\* invoking the remote Stop and leaves it not connected; the client is not
\* connected after any Stop, so a Stop that follows a Stop (no Start having
\* succeeded since) finds it so, returns nil and invokes nothing: of two
\* consecutive Stops at most the first invokes the remote Stop, once.
C5_StopIdempotent ==
    /\ life # "started" => ~connected
    /\ \A t \in Procs :
        (op[t] = "Stop" /\ muW = t)
        => /\ ~entryConn[t] => /\ pc[t] = "Unlock"
                               /\ ret[t] = RetErr(NoErr)
                               /\ calls[t] = NoCalls
                               /\ ~connected
           /\ entryLife[t] # "started" => ~entryConn[t]
           /\ pc[t] = "Unlock" => ~connected /\ calls[t]["Stop"] <= 1

\* a Stop that follows a Stop which invoked the remote Stop returns nil
\* without invoking it again
C5_Witness ==
    \E t \in Procs :
        /\ op[t] = "Stop" /\ pc[t] = "Unlock"
        /\ entryLife[t] \in {"stopped", "stop failed"}
        /\ ret[t].err = NoErr /\ calls[t]["Stop"] = 0

\* C6: a Stop on a connected client whose remote Stop reports an error
\* returns that error with the connected flag cleared, and a Start that
\* comes next finds the client not connected: it is not rejected with
\* AlreadyConnected.
C6_StopClearsFlagOnError ==
    \A t \in Procs :
        /\ (op[t] = "Stop" /\ pc[t] = "Unlock" /\ calls[t]["Stop"] = 1)
            => /\ entryConn[t]
               /\ ~connected
               /\ life = "stop failed" <=> ret[t].err = Err("sdk", SdkErr)
               /\ life = "stopped" <=> ret[t].err = NoErr
        /\ (op[t] = "Start" /\ muW = t /\ entryLife[t] = "stop failed")
            => /\ ~entryConn[t]
               /\ ret[t].err # ErrAlreadyConnected

\* a Start is making its attempt on a client whose last Stop returned the
\* remote Stop's error
C6_Witness ==
    \E t \in Procs :
        /\ op[t] = "Start" /\ muW = t /\ entryLife[t] = "stop failed"
        /\ pc[t] = "StartAttempt"

\* C7: a Query, QueryWithSession or QueryStream call with the empty prompt
\* makes no remote call and returns EmptyPrompt with a nil result (a nil
\* channel and the empty session id), whether or not the client is
\* connected and whatever session id was passed: the prompt is checked
\* before the connected flag is read.
C7_EmptyPromptFirst ==
    \A t \in Procs :
        (op[t] \in {"QueryWithSession", "QueryStream"} /\ prompt[t] = "")
        => /\ pc[t] \in {"EmptyPrompt", "Return"}
           /\ calls[t] = NoCalls
           /\ pc[t] = "Return" =>
                /\ ret[t].err = ErrEmptyPrompt
                /\ ret[t].nilRes /\ ~ret[t].ch /\ ret[t].SessionID = ""

\* QueryStream returns EmptyPrompt for the empty prompt and a session id on
\* a client that is not connected
C7_Witness ==
    \E t \in Procs :
        /\ op[t] = "QueryStream" /\ pc[t] = "Return"
        /\ prompt[t] = "" /\ sessionID[t] # ""
        /\ ~connected
        /\ ret[t].err = ErrEmptyPrompt

\* C8: a QueryWithSession (Query) or QueryStream call with a non-empty
\* prompt, a Ping or a DestroySession that finds the client not connected
\* returns NotConnected and invokes no operation of the remote agent.
C8_NotConnectedNoRemoteCall ==
    \A t \in Procs :
        (/\ op[t] \in {"QueryWithSession", "QueryStream", "Ping", "DestroySession"}
         /\ op[t] \in {"QueryWithSession", "QueryStream"} => prompt[t] # ""
         /\ PastCheck(t)
         /\ ~entryConn[t])
        => /\ pc[t] \in {"Return", "Unlock"}
           /\ ret[t] = RetErr(ErrNotConnected)
           /\ calls[t] = NoCalls

\* QueryStream with a prompt returns NotConnected after a Stop has cleared
\* the flag
C8_Witness ==
    \E t \in Procs :
        /\ op[t] = "QueryStream" /\ pc[t] = "Return" /\ prompt[t] # ""
        /\ life \in {"stopped", "stop failed"}
        /\ ret[t].err = ErrNotConnected

\* C9: a QueryWithSession call that returns yields either a result and a
\* nil error or no result and an error, and is in exactly one of the states
\* completed (a result), aborted (the session was aborted and the context's
\* error is returned) and failed (another error, no abort).
C9_ExactlyOneOutcome ==
    \A t \in Procs :
        (op[t] = "QueryWithSession" /\ pc[t] \in {"QUnsub", "Return"})
        => LET completed == ~ret[t].nilRes /\ ret[t].err = NoErr
               aborted == /\ ret[t].nilRes /\ calls[t]["Abort"] = 1
                          /\ ret[t].err = Err("ctx", ctx[t]) /\ ctx[t] \in CtxErrs
               failed == /\ ret[t].nilRes /\ calls[t]["Abort"] = 0
                         /\ ret[t].err \notin {NoErr, Err("ctx", ctx[t])}
           IN  /\ ret[t].nilRes <=> ret[t].err # NoErr
               /\ Cardinality({s \in {"completed", "aborted", "failed"} :
                      \/ s = "completed" /\ completed
                      \/ s = "aborted" /\ aborted
                      \/ s = "failed" /\ failed}) = 1

\* a QueryWithSession call whose context completed and whose handler has
\* seen the idle event returns the context's error and no result
C9_Witness ==
    \E t \in Procs :
        /\ op[t] = "QueryWithSession" /\ pc[t] = "QUnsub"
        /\ done[t] /\ idleMsg[t] # Nil /\ evtErr[t] = NoErr
        /\ calls[t]["Abort"] = 1
        /\ ret[t].nilRes /\ ret[t].err = Err("ctx", ctx[t])

\* C10, as the claim states it: a QueryWithSession call that returns a
\* result returns the content of the last assistant.message event with
\* content that was delivered before the session.idle event ("" if none),
\* and the ID() of its session handle.
C10_ContentAtIdle ==
    \A t \in Procs :
        (op[t] = "QueryWithSession" /\ pc[t] = "QUnsub" /\ ~ret[t].nilRes)
        => /\ ret[t].Content = idleMsg[t]
           /\ ret[t].SessionID = session[t]

\* C10, amended: a QueryWithSession call that returns a result has had a
\* session.idle event delivered, and returns the content of the last
\* assistant.message event with content that was delivered to its handler
\* before it reads the result ("" if none; events without content and delta
\* events do not count), and the ID() of its session handle.  The handler is
\* still registered between the idle event and the read, so an event
\* delivered in between counts.
C10_ContentAtRead ==
    [][\A t \in Procs :
        (/\ op[t] = "QueryWithSession"
         /\ pc[t] = "QRead" /\ pc'[t] = "QUnsub"
         /\ ret'[t].err = NoErr)
        => /\ idleMsg[t] # Nil
           /\ ~ret'[t].nilRes
           /\ ret'[t].Content = (IF lastMsg[t] = Nil THEN "" ELSE lastMsg[t])
           /\ ret'[t].SessionID = session[t]
           /\ session[t] \in SessionIDs]_vars

\* a QueryWithSession call returns the content of an assistant.message
\* event that was delivered after the idle event
C10_Witness ==
    \E t \in Procs :
        /\ op[t] = "QueryWithSession" /\ pc[t] = "QUnsub"
        /\ ~ret[t].nilRes /\ ret[t].err = NoErr
        /\ idleMsg[t] = "a"
        /\ ret[t].Content = "b"
        /\ ret[t].SessionID = session[t]

\* C11: a QueryWithSession call that takes its result after a session.error
\* event returns a nil result and the error "copilot: <message>", with the
\* event's message or "session error" when the event has none, whatever
\* content its handler has recorded; no session.idle event came first.
C11_ErrorEventIsTheResult ==
    [][\A t \in Procs :
        (/\ op[t] = "QueryWithSession"
         /\ pc[t] = "QRead" /\ pc'[t] = "QUnsub"
         /\ errText[t] # "none")
        => /\ idleMsg[t] = Nil
           /\ ret'[t] = RetErr(Err("copilot",
                    IF errText[t] = Nil THEN "session error" ELSE errText[t]))
           /\ ret'[t].nilRes /\ ret'[t].Content = ""]_vars

\* a QueryWithSession call whose handler recorded content returns the
\* default error text for a session.error event without message
C11_Witness ==
    \E t \in Procs :
        /\ op[t] = "QueryWithSession" /\ pc[t] = "QUnsub"
        /\ lastMsg[t] = "a" /\ content[t] = "a"
        /\ errText[t] = Nil
        /\ ret[t] = RetErr(Err("copilot", "session error"))

\* C12: when the context of a QueryWithSession call completes while the
\* call is parked awaiting the terminal event (none has been delivered), the
\* call leaves the select by its ctx.Done() case, and its next step invokes
\* session.Abort, for the only time in the call, and returns the context's
\* error with a nil result and no content; Send is not invoked again.
C12_CancelAbortsOnce ==
    [][\A t \in Procs :
        /\ (/\ op[t] = "QueryWithSession" /\ pc[t] = "QAwait"
            /\ ctx[t] = CtxLive /\ ctx'[t] # CtxLive)
            => /\ ~done[t] /\ idleMsg[t] = Nil /\ errText[t] = "none"
               /\ pc'[t] = "QAbort"
               /\ calls'[t] = calls[t]
        /\ (pc[t] = "QAbort" /\ pc'[t] \notin {"QAbort", "crashed"})
            => /\ pc'[t] = "QUnsub"
               /\ ctx[t] \in CtxErrs
               /\ calls'[t] = [calls[t] EXCEPT !["Abort"] = 1]
               /\ ret'[t] = RetErr(Err("ctx", ctx[t]))
               /\ ret'[t].nilRes /\ ret'[t].Content = ""
        /\ calls'[t]["Abort"] <= 1]_vars

\* a QueryWithSession call whose handler recorded content, and saw no
\* terminal event, was cancelled: it has aborted the session and returns the
\* context's error
C12_Witness ==
    \E t \in Procs :
        /\ op[t] = "QueryWithSession" /\ pc[t] = "QUnsub"
        /\ ~done[t] /\ content[t] = "a"
        /\ calls[t]["Abort"] = 1
        /\ ret[t] = RetErr(Err("ctx", "context deadline exceeded"))

\* C13: a QueryWithSession call whose session.Send failed is returning, or
\* has returned, a nil result and the error "sending message: <cause>": it
\* never enters the select (it waits for no event and not for the context),
\* has invoked Send once and Abort never.
C13_SendFailureReturnsAtOnce ==
    \A t \in Procs :
        (op[t] = "QueryWithSession" /\ sent[t] = "failed" /\ ~crashed)
        => /\ pc[t] \in {"QUnsub", "Return"}
           /\ ret[t] = RetErr(Err("sending message", SdkErr))
           /\ ret[t].nilRes
           /\ calls[t]["Send"] = 1
           /\ calls[t]["Abort"] = 0

\* a QueryWithSession call with a live context and no event delivered
\* returns the Send error
C13_Witness ==
    \E t \in Procs :
        /\ op[t] = "QueryWithSession" /\ pc[t] = "QUnsub"
        /\ sent[t] = "failed" /\ ctx[t] = CtxLive /\ ~done[t]
        /\ ret[t].err.kind = "sending message"

\* if event.Data.DeltaContent != nil
HasText(x) == x # Nil
\* the delta items the handler of the QueryStream call of t forwards for the
\* delta events delivered to it: one for each event that has text, in order
Forwarded(t) ==
    LET D == SelectSeq(deltas[t], HasText)
    IN  [i \in 1..Len(D) |-> Item(D[i], "", FALSE, NoErr)]

\* C14: the items of a QueryStream call's channel are the delta items of
\* the delta events delivered to its handler, in the order of delivery, as
\* long as no terminal event was delivered; once the session.idle event was
\* delivered they are those items followed by one final item, which is the
\* last, and the channel is closed.  The consumer receives them in this
\* order.
C14_DeltasInOrderThenFinal ==
    \A t \in Procs :
        (op[t] = "QueryStream" /\ ~crashed /\ errText[t] = "none")
        => /\ received[t] <= Len(events[t])
           /\ idleMsg[t] = Nil => events[t] = Forwarded(t)
           /\ idleMsg[t] # Nil =>
                /\ Len(events[t]) = Len(Forwarded(t)) + 1
                /\ SubSeq(events[t], 1, Len(Forwarded(t))) = Forwarded(t)
                /\ events[t][Len(events[t])].IsFinal
                /\ events[t][Len(events[t])].Error = NoErr
                /\ events[t][Len(events[t])].DeltaContent = ""
                /\ closed[t]

\* the consumer has received the deltas "a" and "b" and the final item
\* "ab" of a closed channel
C14_Witness ==
    \E t \in Procs :
        /\ op[t] = "QueryStream" /\ pc[t] = "Streaming"
        /\ deltas[t] = <<"a", "b">>
        /\ events[t] = <<Item("a", "", FALSE, NoErr), Item("b", "", FALSE, NoErr),
                         Item("", "ab", TRUE, NoErr)>>
        /\ closed[t] /\ received[t] = 3

\* the texts of a sequence of delta texts, concatenated in order
RECURSIVE Concat(_)
Concat(seq) ==
    IF seq = <<>> THEN ""
    ELSE IF HasText(Head(seq)) THEN Head(seq) \o Concat(Tail(seq))
    ELSE Concat(Tail(seq))

\* the final item of the closed channel of t
FinalItem(t) == events[t][Len(events[t])]

\* C15, as the claim states it: the final item of a QueryStream call
\* carries the content of the last assistant.message event with content
\* delivered before the session.idle event if there was one, and otherwise
\* the concatenation of the delta texts in the order of delivery.
C15_OverrideOrConcat ==
    \A t \in Procs :
        (op[t] = "QueryStream" /\ ~crashed /\ idleMsg[t] # Nil /\ errText[t] = "none")
        => FinalItem(t).Content =
                IF idleMsg[t] # "" THEN idleMsg[t] ELSE Concat(deltas[t])

\* C15, amended: the session.idle event makes the handler of a QueryStream
\* call send one final item whose content is the content of the last
\* assistant.message event with content delivered before (if any) followed
\* by the texts of the delta events delivered after that event, in order;
\* without such an assistant.message event it is the concatenation of all
\* the delta texts.
C15_OverrideThenLaterDeltas ==
    [][\A t \in Procs :
        (/\ op[t] = "QueryStream" /\ ~crashed'
         /\ idleMsg[t] = Nil /\ idleMsg'[t] # Nil)
        => events'[t] = Append(events[t],
              Item("",
                   (IF lastMsg[t] = Nil THEN "" ELSE lastMsg[t])
                     \o Concat(SubSeq(deltas[t], msgAt[t] + 1, Len(deltas[t]))),
                   TRUE, NoErr))]_vars

\* the final item carries "ab": the assistant.message "a" and the delta
\* "b" that came after it
C15_Witness ==
    \E t \in Procs :
        /\ op[t] = "QueryStream" /\ idleMsg[t] = "a"
        /\ deltas[t] = <<"b">> /\ msgAt[t] = 0
        /\ closed[t] /\ Len(events[t]) = 2
        /\ FinalItem(t) = Item("", "ab", TRUE, NoErr)

\* the positions of the terminal items (final or error) in the channel of t
Terminals(t) ==
    {i \in 1..Len(events[t]) : events[t][i].IsFinal \/ events[t][i].Error # NoErr}

\* C16: the channel of a QueryStream call holds at most one terminal item,
\* which is either a final item or an error item and not both; a terminal
\* item is the last item and the channel is closed once it is there; and
\* the channel of a call whose Send did not fail (the calls that return a
\* channel) is closed only with a terminal item in it: a closed stream holds
\* exactly one.
C16_OneTerminalItemLast ==
    \A t \in Procs :
        op[t] = "QueryStream"
        => /\ Cardinality(Terminals(t)) <= 1
           /\ \A i \in Terminals(t) :
                /\ i = Len(events[t])
                /\ closed[t]
                /\ ~(events[t][i].IsFinal /\ events[t][i].Error # NoErr)
                /\ events[t][i].DeltaContent = ""
           /\ (closed[t] /\ sent[t] # "failed") => Cardinality(Terminals(t)) = 1
           /\ ret[t].ch => sent[t] = "ok"

\* the consumer has drained a returned stream that consists of its final
\* item, and the channel is closed
C16_Witness ==
    \E t \in Procs :
        /\ op[t] = "QueryStream" /\ pc[t] = "Streaming" /\ ret[t].ch
        /\ closed[t] /\ Len(events[t]) = 1 /\ received[t] = 1
        /\ Terminals(t) = {1} /\ events[t][1].IsFinal

\* C17: the first session.error event delivered to the handler of a
\* QueryStream call (no terminal event came before) adds exactly one item
\* to the channel, after the delta items forwarded so far: an error item
\* with the error "copilot: <message>", the event's message or "session
\* error" when the event has none; the channel is closed and holds no final
\* item.
C17_ErrorEventEndsStream ==
    [][\A t \in Procs :
        (/\ op[t] = "QueryStream" /\ ~crashed'
         /\ errText[t] = "none" /\ errText'[t] # "none")
        => /\ events[t] = Forwarded(t)
           /\ events'[t] = Append(events[t],
                Item("", "", FALSE,
                     Err("copilot", IF errText'[t] = Nil THEN "session error"
                                    ELSE errText'[t])))
           /\ ~closed[t] /\ closed'[t]
           /\ \A i \in 1..Len(events'[t]) : ~events'[t][i].IsFinal]_vars

\* a stream holds the delta "a" and then the error item of a session.error
\* event without message, and is closed
C17_Witness ==
    \E t \in Procs :
        /\ op[t] = "QueryStream" /\ errText[t] = Nil /\ closed[t]
        /\ events[t] = <<Item("a", "", FALSE, NoErr),
                         Item("", "", FALSE, Err("copilot", "session error"))>>

\* C18: a QueryStream call returns an error exactly when it returns a nil
\* channel and the empty session id; without an error it returns the channel
\* and the ID() of its session handle after a successful Send.  A call whose
\* Send failed returns "sending message: <cause>" with its handler
\* unsubscribed, and a call that got no session "session setup: <cause>".
\* No channel holds an error item that did not come from a session.error
\* event.
C18_StreamErrorOrChannel ==
    \A t \in Procs :
        /\ (op[t] = "QueryStream" /\ pc[t] \in {"Return", "Streaming"})
            => /\ ret[t].err # NoErr <=> (~ret[t].ch /\ ret[t].SessionID = "")
               /\ ret[t].err # NoErr => ~ret[t].ch /\ ret[t].SessionID = ""
               /\ ret[t].err = NoErr =>
                    /\ ret[t].ch /\ sent[t] = "ok"
                    /\ ret[t].SessionID = session[t] /\ session[t] \in SessionIDs
               /\ sent[t] = "failed" =>
                    /\ ret[t] = RetErr(Err("sending message", SdkErr))
                    /\ ~subscribed[t]
                    /\ calls[t]["Unsubscribe"] >= 1
               /\ (PastCheck(t) /\ entryConn[t] /\ session[t] = "") =>
                    ret[t] = RetErr(Err("session setup", SdkErr))
        /\ (op[t] = "QueryStream" /\ errText[t] = "none")
            => \A i \in 1..Len(events[t]) : events[t][i].Error = NoErr

\* a QueryStream call returns the Send error and no channel, its handler
\* unsubscribed, after the handler had already forwarded a delta
C18_Witness ==
    \E t \in Procs :
        /\ op[t] = "QueryStream" /\ pc[t] = "Return"
        /\ sent[t] = "failed" /\ deltas[t] = <<"a">>
        /\ ~ret[t].ch /\ ret[t].SessionID = ""
        /\ ret[t].err = Err("sending message", SdkErr)
        /\ ~subscribed[t] /\ calls[t]["Unsubscribe"] = 1

\* C19, as the claim states it: every delta item in the channel of a
\* QueryStream call carries non-empty delta text (a delta event whose text
\* is absent or empty is not forwarded).
C19_NoEmptyDeltaItem ==
    \A t \in Procs :
        op[t] = "QueryStream"
        => \A i \in 1..Len(events[t]) :
                i \notin Terminals(t) => events[t][i].DeltaContent # ""

\* C19, amended: a delta event whose text is absent (nil) adds no item to
\* the channel of a QueryStream call and leaves fullContent unchanged; a
\* delta event whose text is present adds one delta item carrying that text
\* and appends the text to fullContent, so that a present but empty text is
\* forwarded as an item with empty delta text and leaves fullContent
\* unchanged.
C19_AbsentDeltaDropped ==
    [][\A t \in Procs :
        (/\ op[t] = "QueryStream" /\ ~crashed'
         /\ Len(deltas'[t]) = Len(deltas[t]) + 1)
        => LET d == deltas'[t][Len(deltas'[t])]
           IN  /\ d = Nil => /\ events'[t] = events[t]
                             /\ fullContent'[t] = fullContent[t]
               /\ d # Nil => /\ events'[t] = Append(events[t], Item(d, "", FALSE, NoErr))
                             /\ fullContent'[t] = fullContent[t] \o d
               /\ d = "" => fullContent'[t] = fullContent[t]
               /\ closed'[t] = closed[t]]_vars

\* after the delta "a", a delta without text and a delta with the empty
\* text, the channel holds the item "a" and an item with empty delta text,
\* and fullContent is "a"
C19_Witness ==
    \E t \in Procs :
        /\ op[t] = "QueryStream"
        /\ deltas[t] = <<"a", Nil, "">>
        /\ events[t] = <<Item("a", "", FALSE, NoErr), Item("", "", FALSE, NoErr)>>
        /\ fullContent[t] = "a" /\ ~closed[t]

\* C20: once the context of a QueryStream call that registered its handler
\* is done, the goroutine of the call eventually unsubscribes the handler
\* (unless a panic ends the process first), whether or not a terminal event
\* was delivered.  The completion of the context and the goroutine's step
\* add no item to the channel and do not close it, and a stream whose
\* handler was unsubscribed this way before any terminal event is open and
\* holds no terminal item.
C20_CancelUnsubscribesOnly ==
    /\ \A t \in Procs :
        (op[t] = "QueryStream" /\ watcher[t] = "waiting" /\ ctx[t] # CtxLive)
            ~> ((watcher[t] = "exited" /\ ~subscribed[t]) \/ crashed)
    /\ [][\A t \in Procs :
            ((ctx[t] = CtxLive /\ ctx'[t] # CtxLive)
                \/ (watcher[t] = "waiting" /\ watcher'[t] = "exited"))
            => /\ events'[t] = events[t]
               /\ closed'[t] = closed[t]
               /\ watcher'[t] = "exited" => ctx[t] # CtxLive /\ ~subscribed'[t]]_vars
    /\ [](\A t \in Procs :
            (/\ op[t] = "QueryStream" /\ watcher[t] = "exited" /\ sent[t] = "ok"
             /\ idleMsg[t] = Nil /\ errText[t] = "none")
            => ~closed[t] /\ Terminals(t) = {} /\ ~subscribed[t])

\* a returned stream was cancelled after a delta: its handler is
\* unsubscribed, the channel is open and holds the delta item only
C20_Witness ==
    \E t \in Procs :
        /\ op[t] = "QueryStream" /\ pc[t] = "Streaming" /\ ret[t].ch
        /\ ctx[t] \in CtxErrs /\ watcher[t] = "exited" /\ ~subscribed[t]
        /\ events[t] = <<Item("a", "", FALSE, NoErr)>> /\ ~closed[t]

\* C21: a QueryStream call that returned its channel and whose context was
\* done before any terminal event has, once its goroutine has finished,
\* issued an Abort call on the session (as QueryWithSession does).
C21_StreamCancelAborts ==
    \A t \in Procs :
        (/\ op[t] = "QueryStream" /\ pc[t] = "Streaming" /\ ret[t].ch
         /\ watcher[t] = "exited" /\ idleMsg[t] = Nil /\ errText[t] = "none")
        => calls[t]["Abort"] >= 1

\* C22: a query past its precondition checks has made no session-resolution
\* call before getOrCreateSession and exactly one after it: CreateSession
\* if and only if the sessionID given is empty, ResumeSession otherwise,
\* and the handle of a resumed session is the one with the id given; a
\* result or a stream returned carries the ID() of the handle obtained.
C22_OneResolutionCall ==
    \A t \in Procs :
        (/\ op[t] \in {"QueryWithSession", "QueryStream"} /\ PastCheck(t)
         /\ ret[t].err \notin {ErrEmptyPrompt, ErrNotConnected})
        => LET made == calls[t]["CreateSession"] + calls[t]["ResumeSession"]
           IN  /\ made = IF pc[t] = "Session" THEN 0 ELSE 1
               /\ calls[t]["CreateSession"] = 1 => sessionID[t] = ""
               /\ calls[t]["ResumeSession"] = 1 => sessionID[t] # ""
               /\ (calls[t]["ResumeSession"] = 1 /\ session[t] # "")
                    => session[t] = sessionID[t]
               /\ (~ret[t].nilRes \/ ret[t].ch)
                    => ret[t].SessionID = session[t] /\ session[t] # ""

\* a single-result query that resumed session s1 returned its result: one
\* ResumeSession call, no CreateSession call, the result names s1
C22_Witness ==
    \E t \in Procs :
        /\ op[t] = "QueryWithSession" /\ pc[t] = "Return" /\ sessionID[t] = "s1"
        /\ ~ret[t].nilRes /\ ret[t].SessionID = "s1"
        /\ calls[t]["ResumeSession"] = 1 /\ calls[t]["CreateSession"] = 0

\* C23: a query (of either form) whose session resolution failed, so that it
\* holds no session handle after getOrCreateSession, is returning the
\* transport's error wrapped as "session setup", with no result, no channel
\* and no session id, after exactly one resolution call and without having
\* registered a handler, sent the prompt, called Abort or unsubscribed.
C23_SetupFailureReturnsAtOnce ==
    \A t \in Procs :
        (/\ op[t] \in {"QueryWithSession", "QueryStream"} /\ PastCheck(t)
         /\ ret[t].err \notin {ErrEmptyPrompt, ErrNotConnected}
         /\ pc[t] # "Session" /\ session[t] = "")
        => /\ pc[t] = "Return"
           /\ ret[t] = RetErr(Err("session setup", SdkErr))
           /\ calls[t]["CreateSession"] + calls[t]["ResumeSession"] = 1
           /\ calls[t]["On"] = 0 /\ calls[t]["Send"] = 0
           /\ calls[t]["Abort"] = 0 /\ calls[t]["Unsubscribe"] = 0
           /\ ~subscribed[t] /\ watcher[t] = "none" /\ sent[t] = "none"

\* a streaming query whose CreateSession call failed is returning the
\* wrapped error
C23_Witness ==
    \E t \in Procs :
        /\ op[t] = "QueryStream" /\ pc[t] = "Return" /\ sessionID[t] = ""
        /\ ret[t].err = Err("session setup", SdkErr) /\ ~ret[t].ch
        /\ calls[t]["CreateSession"] = 1 /\ calls[t]["On"] = 0

\* C24: when the Handler built by toSDKTool has returned, it returned an
\* error if and only if the arguments were not a map (nil included), and
\* then the caller's handler was not invoked and the result is empty; with
\* map arguments the caller's handler was invoked once and no error is
\* returned: when the handler failed the result text is "error: " followed
\* by the handler's message, when it succeeded the handler's text as it is.
C24_BridgeNeverPropagatesHandlerError ==
    tool.pc = "Returned"
    => /\ tool.err # Nil <=> tool.args # "map[string]interface {}"
       /\ tool.err # Nil => tool.invoked = 0 /\ tool.result = NoResult
       /\ tool.err = Nil =>
            /\ tool.invoked = 1
            /\ tool.handler.err # Nil
                => /\ tool.result.TextResultForLLM = "error: " \o tool.handler.err
                   /\ tool.result.ResultType = "error"
            /\ tool.handler.err = Nil
                => /\ tool.result.TextResultForLLM = tool.handler.text
                   /\ tool.result.ResultType = "success"

\* the handler of a tool invoked with map arguments failed with "lost": the
\* bridge returned "error: lost" and no error
C24_Witness ==
    /\ tool.pc = "Returned" /\ tool.args = "map[string]interface {}"
    /\ tool.handler.err = "lost" /\ tool.invoked = 1
    /\ tool.result.TextResultForLLM = "error: lost" /\ tool.err = Nil

\* the request's body is malformed, or its prompt is empty or white space
BadRequest(b) ==
    \/ ~b.valid
    \/ \A i \in 1..Len(b.Prompt) : b.Prompt[i] \in {" ", "\t"}

\* C25 as stated: a request answered by the query or the stream handler
\* whose body is malformed or whose prompt is empty or white space is
\* answered 400 without a call of the client; a request on which the client
\* was called and returned an error is answered 503 for NotConnected and
\* SidecarUnavailable and 500 for any other error, never 200.
C25_StatusClasses ==
    http.pc = "Done"
    => /\ BadRequest(http.body) => http.status = 400 /\ http.called = 0
       /\ (http.called = 1 /\ http.client # NoErr)
            => /\ http.status = IF http.client.kind \in
                                    {"ErrNotConnected", "ErrSidecarUnavailable"}
                                THEN 503 ELSE 500
               /\ http.status # 200

\* C25, amended: the same for the query handler and for the stream handler
\* when the response writer can flush; the stream handler answers a writer
\* that cannot flush 500, whatever the body, without a call of the client.
C25_StatusClassesWhenFlushable ==
    http.pc = "Done"
    => IF http.handler = "NewStreamHandler" /\ ~http.flusher
       THEN http.status = 500 /\ http.called = 0
       ELSE IF BadRequest(http.body)
       THEN http.status = 400 /\ http.called = 0
       ELSE /\ http.called = 1
            /\ http.client.kind \in {"ErrNotConnected", "ErrSidecarUnavailable"}
                => http.status = 503
            /\ (http.client # NoErr /\ http.client.kind
                    \notin {"ErrNotConnected", "ErrSidecarUnavailable"})
                => http.status = 500
            /\ http.client = NoErr => http.status = 200

\* the stream handler was given a prompt with text and the client returned
\* ErrNotConnected: the client was called once and the answer is 503
C25_Witness ==
    /\ http.pc = "Done" /\ http.handler = "NewStreamHandler" /\ http.flusher
    /\ http.body.valid /\ http.body.Prompt = <<" ", "h">>
    /\ http.client = ErrNotConnected /\ http.called = 1 /\ http.status = 503

\* C26: when New has returned, it returned either an error and no client,
\* or no error and a client that is not connected and whose configuration
\* has a non-empty address, under BYOK a non-empty model and provider base
\* URL, at least one retry attempt, and a positive connection timeout and
\* retry delay.
C26_NewValidOrNothing ==
    build.pc = "Returned"
    => \/ build.err # Nil /\ ~build.client
       \/ /\ build.err = Nil /\ build.client /\ ~build.connected
          /\ build.cfg.cliURL # ""
          /\ build.cfg.authMode = "byok"
                => build.cfg.model # "" /\ build.cfg.providerBaseURL # ""
          /\ build.cfg.retryAttempts >= 1
          /\ IsPositive(build.cfg.connTimeout)
          /\ IsPositive(build.cfg.retryDelay)

\* New(WithRetryAttempts(2), WithBYOK(openai, url, key), WithRetryDelay(1))
\* returned a client
C26_Witness ==
    /\ build.pc = "Returned" /\ build.n = 3 /\ build.client /\ build.err = Nil
    /\ build.cfg.authMode = "byok" /\ build.cfg.providerBaseURL # ""
    /\ build.cfg.retryAttempts = 2 /\ build.cfg.retryDelay = Duration(1)

\* C27: in a Start call the j-th wait begun (the wait before attempt j+1)
\* lasts retryDelay * 2^(j-1) in int64 arithmetic, is strictly positive and
\* is strictly longer than the wait before it.
C27_WaitsPositiveAndIncreasing ==
    \A t \in Procs : \A j \in 1..Len(slept[t]) :
        /\ slept[t][j] = Shl(cfg.retryDelay, j - 1)
        /\ IsPositive(slept[t][j])
        /\ j > 1 => Less(slept[t][j - 1], slept[t][j])

\* C28: a QueryWithSession call that registered its handler has called the
\* unsubscribe function exactly once when it returns, on each of its return
\* paths (idle, error event, Send failure, cancellation), and not before:
\* until then the handler is subscribed; a call that registered no handler
\* never unsubscribes.  No handler stays subscribed after the return.
C28_UnsubscribedOnceAtReturn ==
    \A t \in Procs :
        (op[t] = "QueryWithSession" /\ pc[t] # "crashed")
        => IF calls[t]["On"] = 0
           THEN calls[t]["Unsubscribe"] = 0 /\ ~subscribed[t]
           ELSE /\ calls[t]["On"] = 1
                /\ IF pc[t] = "Return"
                   THEN calls[t]["Unsubscribe"] = 1 /\ ~subscribed[t]
                   ELSE calls[t]["Unsubscribe"] = 0 /\ subscribed[t]

\* a single-result query whose Send failed is returning: its handler was
\* registered and unsubscribed once
C28_Witness ==
    \E t \in Procs :
        /\ op[t] = "QueryWithSession" /\ pc[t] = "Return" /\ sent[t] = "failed"
        /\ calls[t]["On"] = 1 /\ calls[t]["Unsubscribe"] = 1 /\ ~subscribed[t]

\* a Start call of t is between taking the lock and its return
InStart(t) == op[t] = "Start" /\ pc[t] \notin {"idle", "StartLock", "crashed"}

\* C29: with concurrent Start and Stop calls on one Client, no two Start
\* calls are past the lock together, so their attempts do not interleave;
\* no Stop call is past the lock (where the remote Stop runs) while a Start
\* call is; the connected flag is set exactly when a Start has succeeded
\* since the last remote Stop; and an attempt of a Start succeeds only when
\* no Start has succeeded since the last remote Stop, so at most one Start
\* succeeds between two Stop calls.
C29_TransitionExclusive ==
    /\ [](\A t, u \in Procs :
            /\ (t # u /\ InStart(t)) => ~InStart(u)
            /\ InStart(t) => (muW = t /\ (op[u] = "Stop" => pc[u] \in {"idle", "StopLock"}))
            /\ connected <=> life = "started")
    /\ [][\A t \in Procs :
            (pc[t] = "StartAttempt" /\ connected')
            => (~connected /\ life # "started" /\ entryLife[t] = life)]_vars

\* one Start call is waiting between two attempts while another Start call
\* waits for the lock
C29_Witness ==
    /\ op["p1"] = "Start" /\ pc["p1"] = "StartWait" /\ Len(outcomes["p1"]) = 1
    /\ op["p2"] = "Start" /\ pc["p2"] = "StartLock"
    /\ muW = "p1"

\* C30: every CreateSession, ResumeSession, Send and DeleteSession call that
\* a query or DestroySession issues is issued in a state where the
\* connected flag is true.
C30_RemoteCallsWhileConnected ==
    [][\A t \in Procs :
        \A o \in {"CreateSession", "ResumeSession", "Send", "DeleteSession"} :
            calls'[t][o] > calls[t][o] => connected]_vars

\* C31: while the handler of a QueryWithSession call is subscribed, no
\* sequence of events delivered to it closes the done channel a second
\* time: the process does not panic during the call.
C31_DoneClosedAtMostOnce ==
    \A t \in Procs : op[t] = "QueryWithSession" => ~crashed

\* C32: once the events channel of a QueryStream call is closed, an event
\* delivered while the handler is still subscribed neither sends an item on
\* the channel nor closes it again: the delivery does not panic and leaves
\* the channel's items as they are.
C32_NoSendOrCloseAfterClose ==
    [][\A t \in Procs :
        (/\ op[t] = "QueryStream" /\ closed[t] /\ subscribed[t] /\ ~crashed
         /\ nevents' = nevents + 1)
        => (~crashed' /\ events'[t] = events[t])]_vars

\* C33: no QueryStream call leaks its subscription or its goroutine: once
\* the events channel is closed (the terminal item was sent, or Send
\* failed) the handler is unsubscribed and the goroutine waiting on
\* ctx.Done() has exited, or else the goroutine can run, unsubscribe and
\* exit, also while the caller's context has not completed.
C33_StreamReleasesEverything ==
    \A t \in Procs :
        (op[t] = "QueryStream" /\ closed[t] /\ ~crashed)
            => /\ ~subscribed[t] \/ ENABLED Watcher(t)
               /\ watcher[t] = "exited" \/ ENABLED Watcher(t)

\* C34: QueryStream returns as soon as Send has returned.  Once Send has
\* returned (and no close of the closed channel has ended the process) the
\* call is at its return statement or has returned, and at the return
\* statement the return is able to happen whatever has been delivered or
\* consumed: it waits for no event and for no receive.
C34_ReturnsRightAfterSend ==
    \A t \in Procs :
        (op[t] = "QueryStream" /\ ~crashed) =>
            /\ sent[t] # "none" => pc[t] \in {"Return", "Streaming"}
            /\ (pc[t] = "Return" /\ sent[t] # "none")
                   => ENABLED (StreamReturn(t) \/ Return(t))

\* QueryStream has returned its channel although no event was delivered to
\* the handler and nothing is on the channel
C34_Witness ==
    \E t \in Procs :
        /\ op[t] = "QueryStream" /\ pc[t] = "Streaming" /\ sent[t] = "ok"
        /\ ret[t].ch /\ ret[t].err = NoErr
        /\ events[t] = <<>> /\ ~closed[t] /\ received[t] = 0
        /\ deltas[t] = <<>> /\ lastMsg[t] = Nil /\ idleMsg[t] = Nil
        /\ errText[t] = "none"

\* C35: the events channel never holds more than 64 items the consumer has
\* not received.  While fewer than 64 are pending the handler's send goes
\* through; while 64 are pending (and the channel is open) the send, and
\* with it the event-delivery thread, is blocked and nothing but the
\* consumer's receive can happen.  While the thread has not panicked, the
\* handler holds mu during the send of the final item, and during no other
\* send.
C35_ChannelHoldsAtMost64 ==
    /\ Len(chan.buf) <= StreamBuffer
    /\ (chan.pc = "Send" /\ ~chan.closed) =>
          /\ Len(chan.buf) < StreamBuffer => ENABLED HandlerSend
          /\ Len(chan.buf) = StreamBuffer =>
                /\ ~ENABLED HandlerSend
                /\ ~ENABLED (\E ev \in StreamEvents : Deliver(ev))
                /\ ENABLED Receive
    /\ ~chan.panicked => (chan.mu <=> (chan.pc = "Send" /\ chan.item.IsFinal))

\* the handler of session.idle is blocked at its send, holding mu, with 64
\* items pending
C35_Witness ==
    /\ chan.pc = "Send" /\ chan.item.IsFinal /\ chan.mu
    /\ Len(chan.buf) = StreamBuffer /\ ~chan.closed

\* C36: QueryWithSession invokes session.Abort if and only if it returns the
\* context's error.  Abort is invoked at most once in a call; a call that is
\* returning has invoked it exactly when what it returns is ctx.Err() (with a
\* nil result, after a Send that succeeded), and not when it returns a result,
\* an event's error, a Send failure or a session-setup failure.  When the
\* select is reached with done closed and the context completed, both cases
\* can be taken.
C36_AbortIffContextError ==
    \A t \in Procs :
        op[t] = "QueryWithSession" =>
            /\ calls[t]["Abort"] <= 1
            /\ pc[t] \in {"QUnsub", "Return"} =>
                  /\ calls[t]["Abort"] = 1 <=> ret[t].err.kind = "ctx"
                  /\ calls[t]["Abort"] = 1 =>
                        /\ ret[t] = RetErr(Err("ctx", ctx[t]))
                        /\ ctx[t] \in CtxErrs
                        /\ sent[t] = "ok"
                  /\ calls[t]["Abort"] = 0 =>
                        \/ ret[t].err = NoErr /\ ~ret[t].nilRes /\ done[t]
                        \/ ret[t].err = evtErr[t] /\ evtErr[t] # NoErr /\ done[t]
                        \/ ret[t].err.kind \in {"sending message", "session setup"}
                        \/ ret[t].err \in {ErrEmptyPrompt, ErrNotConnected}
            /\ (pc[t] = "Send" /\ done[t] /\ ctx[t] # CtxLive /\ ~crashed) =>
                  /\ ENABLED (Send(t) /\ pc'[t] = "QRead")
                  /\ ENABLED (Send(t) /\ pc'[t] = "QAbort")

\* a terminal event and the completion of the context were both pending, and
\* the call took the ctx.Done() case: it aborted the session and returns the
\* context's error
C36_Witness ==
    \E t \in Procs :
        /\ op[t] = "QueryWithSession" /\ pc[t] = "Return"
        /\ done[t] /\ idleMsg[t] # Nil /\ ctx[t] \in CtxErrs
        /\ calls[t]["Abort"] = 1 /\ ret[t] = RetErr(Err("ctx", ctx[t]))

\* C37: the connected flag is true exactly when the last transition of the
\* connection was a Start that succeeded: no Stop found the client connected
\* since.  IsConnected returns the flag as it is when it takes the lock.  A
\* step changes the flag only if it is the successful attempt of a Start
\* (the flag becomes true and the Start returns nil) or the remote Stop of a
\* Stop (the flag becomes false); the steps of failed Starts, of Ping, of the
\* query forms and of DestroySession leave it alone.
C37_ConnectedIffStartedNotStopped ==
    /\ [](/\ connected <=> life = "started"
          /\ \A t \in Procs :
                (op[t] = "IsConnected" /\ pc[t] = "Unlock")
                    => /\ ret[t].b <=> entryLife[t] = "started"
                       /\ ret[t].err = NoErr)
    /\ [][connected' # connected =>
            \E t \in Procs :
                /\ muW = t /\ pc'[t] = "Unlock"
                /\ \/ /\ op[t] = "Start" /\ connected'
                      /\ ret'[t].err = NoErr
                      /\ outcomes'[t][Len(outcomes'[t])] = "ok"
                   \/ /\ op[t] = "Stop" /\ ~connected'
                      /\ calls'[t]["Stop"] = 1]_vars

\* IsConnected returns true on a started client while another caller's Ping,
\* which the remote agent failed, is returning its error
C37_Witness ==
    \E t, u \in Procs :
        /\ op[t] = "IsConnected" /\ pc[t] = "Unlock" /\ ret[t].b
        /\ op[u] = "Ping" /\ pc[u] = "Unlock" /\ ret[u].err = Err("sdk", SdkErr)
        /\ connected /\ life = "started"

\* C38: queries on distinct session handles are independent.  Every event
\* the remote agent delivers is delivered on one handle h, and the queries
\* whose session is not h keep their content, their event error and done
\* channel, their fullContent and their stream items and channel as they
\* were; unless the delivery panics, they also stay where they are in
\* their call.
C38_EventsStayOnTheirHandle ==
    [][nevents' = nevents + 1 =>
        \E h \in SessionIDs :
            \A t \in Procs :
                session[t] # h =>
                    /\ content'[t] = content[t]
                    /\ evtErr'[t] = evtErr[t]
                    /\ done'[t] = done[t]
                    /\ fullContent'[t] = fullContent[t]
                    /\ events'[t] = events[t]
                    /\ closed'[t] = closed[t]
                    /\ crashed' \/ pc'[t] = pc[t]]_vars

\* a QueryWithSession call has recorded content and its terminal event while
\* a QueryStream call on another handle, subscribed all along, has seen
\* nothing
C38_Witness ==
    \E t, u \in Procs :
        /\ op[t] = "QueryWithSession" /\ op[u] = "QueryStream"
        /\ subscribed[t] /\ subscribed[u] /\ session[t] # session[u]
        /\ sent[t] = "ok" /\ sent[u] = "ok"
        /\ content[t] = "a" /\ done[t] /\ nevents >= 2
        /\ events[u] = <<>> /\ ~closed[u] /\ fullContent[u] = ""
        /\ lastMsg[u] = Nil /\ idleMsg[u] = Nil /\ errText[u] = "none"
        /\ deltas[u] = <<>>

\* C39: an invocation of the HTTP stream handler that is streaming returns
\* in the end, also when the request's context is cancelled before a
\* terminal item arrived.  Once the context has completed and the goroutine
\* of QueryStream has run, the handler's loop has returned, or an item is
\* waiting for it on the channel, or the handler of the call is still
\* subscribed, so that an item or the close can still come.
C39_StreamHandlerReturns ==
    \A t \in Procs :
        (/\ op[t] = "QueryStream" /\ pc[t] = "Streaming" /\ ret[t].ch
         /\ ctx[t] # CtxLive /\ watcher[t] = "exited" /\ ~crashed)
            => \/ LoopReturned(t)
               \/ ENABLED Recv(t)
               \/ subscribed[t]

====
